---------------------------- MODULE Spec2Model ----------------------------
(***************************************************************************)
(* A model of decking, a declarative multi-container orchestration tool.   *)
(*                                                                         *)
(*   - the dependency resolver: util.iter_dependencies and                 *)
(*     runner.Decking._names_by_dependency (two generators);               *)
(*   - the cluster operations of runner.Decking (dict based);              *)
(*   - the cluster operations of components.Cluster / Container;           *)
(*   - the group override merge of both;                                   *)
(*   - the construction of runner.Decking from its configuration;          *)
(*   - the log aggregator (attach) of both, with its threads;              *)
(*   - the cached dependency list of components.Image;                     *)
(*   - the build of the images of runner.Decking in dependency order;      *)
(*   - the stored container specifications across several operations.      *)
(*                                                                         *)
(* A Python generator is modelled by its state between two resumptions;    *)
(* one step of the model is one next() on it.                              *)
(***************************************************************************)
EXTENDS Naturals, Sequences, FiniteSets, TLC

(***************************************************************************)
(* Names.  Containers are the configured names; Ghost is a name that       *)
(* is configured nowhere.                                                  *)
(***************************************************************************)
Names == {"alice", "bob", "carol"}

Ghost == "ghost"

DepNames == Names \cup {Ghost}

\* The most dependencies one item declares in the resolver runs.
MaxDeps == 2

\* What a generator hands back besides an item: the wave separator that
\* _names_by_dependency yields (None), exhaustion, and the raised error.
None == "None"

StopIteration == "StopIteration"

RuntimeError == "RuntimeError"

VARIABLES
    items,      \* resolver run: the input set (to_process as passed in)
    deps,       \* the dependency names each name declares
    impl,       \* resolver run: which generator runs ("util" or "runner")
    rs,         \* resolver run: the generator's state
    emitted,    \* resolver run: what the generator has yielded so far
    world,      \* the engine, the live info held by the program, the calls
    op,         \* the cluster operation in progress
    queue,      \* its keys still to map, when the order was reversed
    processedKeys, \* its list `processed` of mapped keys (what it returns)
    opsLeft,    \* cluster operations that may still be invoked
    merge,      \* group merge: a container, a group, and the merged value
    config,     \* construction: the 'containers' mapping of decking.json
    att,        \* attach: the streams, the log queue and the consumer
    img         \* image: the build file and the cached dependencies

vars ==
    <<items, deps, impl, rs, emitted, world, op, queue, processedKeys,
      opsLeft, merge, config, att, img>>

\* What the runs of the resolver, of the cluster operations and of the
\* group merge leave alone.
sideVars == <<config, att, img>>

resolverVars == <<items, impl, emitted>>

programVars == <<world, op, queue, processedKeys, opsLeft>>

---------------------------------------------------------------------------
(***************************************************************************)
(* The resolver.                                                           *)
(*                                                                         *)
(* A generator state is a record                                           *)
(*   to_process, processed, pending : the three sets of the code           *)
(*   scan : the items of the snapshot list(to_process) that the for loop   *)
(*          of the running pass has not yielded                            *)
(*   passes : the passes (runs of the for loop) completed so far           *)
(*   pc   : "head"  at the test of `while to_process`                      *)
(*          "for"   suspended at a yield inside the for loop               *)
(*          "sep"   suspended at `yield None` (runner only)                *)
(*          "done"  exhausted, "error" raised                              *)
(***************************************************************************)
NewGenerator(to_process) ==
    [to_process |-> to_process, processed |-> {}, pending |-> {},
     scan |-> {}, pc |-> "head", passes |-> 0]

\* A resolver that asks for some dependency to be processed, not for all.
IsReadyAny(item, processed, d) ==
    d[item] = {} \/ d[item] \cap processed # {}

\* all(dep in processed for dep in get_item_dependencies(item))
IsReady(item, processed, d) == d[item] \subseteq processed

\* A pass that tests an item against what it has moved itself as well.
ReadyInEager(r, d) ==
    {x \in r.scan : IsReady(x, r.processed \cup r.pending, d)}

ReadyIn(r, d) == {x \in r.scan : IsReady(x, r.processed, d)}

\* The end of a pass whose for loop has run out, in util.iter_dependencies:
\* raise when nothing was moved, else processed |= pending.
UtilEndOfPass(r) ==
    IF r.pending = {}
    THEN [r |-> [r EXCEPT !.pc = "error", !.scan = {}, !.passes = @ + 1],
          out |-> RuntimeError]
    ELSE [r |-> [r EXCEPT !.processed = r.processed \cup r.pending,
                          !.scan = {}, !.pc = "head", !.passes = @ + 1],
          out |-> "resume"]

\* The same place in Decking._names_by_dependency: yield None when something
\* was moved (processed |= pending runs on the next resumption), else raise.
RunnerEndOfPass(r) ==
    IF r.pending = {}
    THEN [r |-> [r EXCEPT !.pc = "error", !.scan = {}, !.passes = @ + 1],
          out |-> RuntimeError]
    ELSE [r |-> [r EXCEPT !.scan = {}, !.pc = "sep", !.passes = @ + 1],
          out |-> None]

\* A resolver that ends the run quietly when a pass moves nothing.
EndOfPassQuiet(r, which) ==
    IF r.pending = {}
    THEN [r |-> [r EXCEPT !.pc = "done", !.scan = {}], out |-> StopIteration]
    ELSE IF which = "util" THEN UtilEndOfPass(r) ELSE RunnerEndOfPass(r)

EndOfPass(r, which) ==
    IF which = "util" THEN UtilEndOfPass(r) ELSE RunnerEndOfPass(r)

\* A for loop that leaves the item it yields in to_process.
YieldItemKept(r, x) ==
    [r |-> [r EXCEPT !.pending = r.pending \cup {x},
                     !.scan = r.scan \ {x},
                     !.pc = "for"],
     out |-> x]

\* The for loop reaches a ready item x: to_process.remove(item),
\* pending.add(item), yield item.
YieldItem(r, x) ==
    [r |-> [r EXCEPT !.to_process = r.to_process \ {x},
                     !.pending = r.pending \cup {x},
                     !.scan = r.scan \ {x},
                     !.pc = "for"],
     out |-> x]

(***************************************************************************)
(* GeneratorNext(r, d, which): the outcomes of one next() on generator r   *)
(* over the dependency map d, as the set of records [r, out]: r the state  *)
(* the generator is left in, out the item yielded, None, StopIteration or  *)
(* RuntimeError.                                                           *)
(*                                                                         *)
(* list(to_process) lists a set, so the for loop may visit the snapshot    *)
(* in any order.  The test of an item reads `processed` only, which        *)
(* changes at the end of a pass and not inside it: an item that fails the  *)
(* test is skipped wherever it stands, and the next item yielded is any    *)
(* ready item not yet visited.  The loop runs out when none is left.       *)
(***************************************************************************)
RECURSIVE GeneratorNext(_, _, _)
GeneratorNext(r, d, which) ==
    CASE r.pc = "head" ->
            IF r.to_process = {}
            THEN {[r |-> [r EXCEPT !.pc = "done"], out |-> StopIteration]}
            ELSE GeneratorNext([r EXCEPT !.pending = {},
                                         !.scan = r.to_process,
                                         !.pc = "for"], d, which)
      [] r.pc = "for" ->
            IF ReadyIn(r, d) # {}
            THEN {YieldItem(r, x) : x \in ReadyIn(r, d)}
            ELSE LET e == EndOfPass(r, which)
                 IN  IF e.out = "resume"
                     THEN GeneratorNext(e.r, d, which)
                     ELSE {e}
      [] r.pc = "sep" ->
            GeneratorNext([r EXCEPT !.processed = r.processed \cup r.pending,
                                    !.pc = "head"], d, which)
      [] OTHER -> {[r |-> r, out |-> StopIteration]}

---------------------------------------------------------------------------
(***************************************************************************)
(* Runs of the resolver alone, over every graph of Names with at most      *)
(* MaxDeps dependencies an item, cyclic and dangling ones included.        *)
(***************************************************************************)
Graphs(S) ==
    {d \in [Names -> SUBSET DepNames] :
        \A n \in Names : /\ Cardinality(d[n]) <= MaxDeps
                         /\ (n \notin S => d[n] = {})}

InitResolver ==
    /\ items \in SUBSET Names
    /\ deps \in Graphs(items)
    /\ impl \in {"util", "runner"}
    /\ rs = NewGenerator(items)
    /\ emitted = <<>>
    /\ world = <<>>
    /\ op = <<>>
    /\ queue = <<>>
    /\ processedKeys = <<>>
    /\ opsLeft = 0
    /\ merge = <<>>
    /\ config = <<>>
    /\ att = <<>>
    /\ img = <<>>

\* The consumer's for loop resumes the generator and receives an item
\* (or the separator).
ResolverYield ==
    /\ rs.pc \notin {"done", "error"}
    /\ \E o \in GeneratorNext(rs, deps, impl) :
          /\ o.out \notin {StopIteration, RuntimeError}
          /\ rs' = o.r
          /\ emitted' = Append(emitted, o.out)
    /\ UNCHANGED <<items, deps, impl, programVars, merge, sideVars>>

\* The generator is exhausted: the consumer's loop ends.
ResolverStop ==
    /\ rs.pc \notin {"done", "error"}
    /\ \E o \in GeneratorNext(rs, deps, impl) :
          /\ o.out = StopIteration
          /\ rs' = o.r
    /\ UNCHANGED <<items, deps, impl, emitted, programVars, merge, sideVars>>

\* The generator raises the dependency error.
ResolverRaise ==
    /\ rs.pc \notin {"done", "error"}
    /\ \E o \in GeneratorNext(rs, deps, impl) :
          /\ o.out = RuntimeError
          /\ rs' = o.r
    /\ UNCHANGED <<items, deps, impl, emitted, programVars, merge, sideVars>>

NextResolver == ResolverYield \/ ResolverStop \/ ResolverRaise

SpecResolver == InitResolver /\ [][NextResolver]_vars

\* The consumer is a sequential for loop: it keeps resuming the generator.
FairSpecResolver == SpecResolver /\ WF_vars(NextResolver)

---------------------------------------------------------------------------
(***************************************************************************)
(* The program.  Two implementations of the cluster operations live in the *)
(* repository: runner.Decking over dictionaries (impl = "runner", what     *)
(* main.py runs) and components.Cluster / Container (impl = "components"). *)
(*                                                                         *)
(* world is the record                                                     *)
(*   instance : per container, the identity held as live info              *)
(*              (container_spec['instance'], Container.                    *)
(*              _docker_container_info); 0 when there is none              *)
(*   engine   : per name, the identity of the container the engine holds;  *)
(*              0 when it holds none                                       *)
(*   serial   : per name, the identities the engine has handed out         *)
(*   calls    : the engine calls issued by the operation in progress, as   *)
(*              <<verb, name>>, in order, the ones that raised included    *)
(*   ncreate  : per name, the engine create calls issued so far            *)
(*   preexisting : per name, whether the engine held it at the start       *)
(*   removed  : per name, whether an engine remove call was issued for it  *)
(*   faults   : the engine calls that may still raise APIError             *)
(*   failed   : the engine calls of the operation in progress that raised  *)
(*              APIError, as <<verb, name>>                                *)
(*   listed   : whether the operation in progress queried the engine's     *)
(*              container list (client.containers)                         *)
(*   cluster  : the cluster the process was invoked on (CLUSTER of the     *)
(*              command line)                                              *)
(*   running  : per name, whether the engine has the container running     *)
(*              (kept in the runs of SpecConfig only)                      *)
(***************************************************************************)
\* cluster_specs: 'office' as in test_decking.py, 'vanilla' as in
\* test/test_decking.py; the clusters of the cluster operations are lists.
ClusterSpecs ==
    [office |-> {"alice", "bob"}, vanilla |-> {"alice", "bob", "carol"}]

\* The most dependencies one container declares.
MaxLinks == 1

\* The cluster operations invoked in one behaviour.
MaxOps == 2

\* The engine calls that raise APIError in one behaviour.
MaxFaults == 1

ContainerGraphs ==
    {d \in [Names -> SUBSET Names] :
        \A n \in Names : Cardinality(d[n]) <= MaxLinks}

Reverse(seq) == [i \in 1..Len(seq) |-> seq[Len(seq) + 1 - i]]

Issue(w, verb, n) == [w EXCEPT !.calls = Append(@, <<verb, n>>)]

\* An engine call raises docker.errors.APIError.
EngineRaises(w, verb, n) ==
    IF w.faults > 0
    THEN {[w |-> [Issue(w, verb, n) EXCEPT
                    !.faults = @ - 1,
                    !.failed = @ \cup {<<verb, n>>}],
           exc |-> "APIError"]}
    ELSE {}

\* client.create_container: the engine makes the container and returns its
\* info, or raises.
EngineCreate(w, n) ==
    {[w |-> [Issue(w, "create", n) EXCEPT
                !.serial[n] = @ + 1,
                !.engine[n] = w.serial[n] + 1,
                !.instance[n] = w.serial[n] + 1,
                !.ncreate[n] = @ + 1],
      exc |-> "none"]}
    \cup {[w |-> [o.w EXCEPT !.ncreate[n] = @ + 1], exc |-> o.exc] :
            o \in EngineRaises(w, "create", n)}

\* What a call that returns does to the container in the engine, where the
\* world keeps the engine's running state (the field `running`, which only
\* the runs from construction, SpecConfig, observe): a start leaves it
\* running, a stop or a remove not.
EngineRan(w, verb, n) ==
    IF "running" \in DOMAIN w
    THEN [w EXCEPT !.running[n] = IF verb = "start" THEN TRUE
                                  ELSE IF verb \in {"stop", "remove"}
                                       THEN FALSE ELSE @]
    ELSE w

\* client.start, client.stop, client.inspect_container: return or raise.
EngineCall(w, verb, n) ==
    {[w |-> EngineRan(Issue(w, verb, n), verb, n), exc |-> "none"]}
    \cup EngineRaises(w, verb, n)

\* client.remove_container: the engine drops the container, or raises.
EngineRemove(w, n) ==
    {[w |-> [EngineRan(Issue(w, "remove", n), "remove", n) EXCEPT
                !.engine[n] = 0,
                !.removed[n] = TRUE],
      exc |-> "none"]}
    \cup {[w |-> [o.w EXCEPT !.removed[n] = TRUE], exc |-> o.exc] :
            o \in EngineRaises(w, "remove", n)}

Unchanged(w) == {[w |-> w, exc |-> "none"]}

Raise(w, exc) == {[w |-> w, exc |-> exc]}

\* Container.created / 'instance' in container_spec
Created(w, n) == w.instance[n] # 0

(***************************************************************************)
(* runner.Decking: the per-container functions.                            *)
(***************************************************************************)
\* A create that does not look at 'instance' first.
create_container_again(w, n) == EngineCreate(w, n)

\* A create that swallows the APIError of its engine call.
create_container_caught(w, n) ==
    {[w |-> o.w, exc |-> "none"] :
        o \in IF Created(w, n) THEN EngineCall(w, "inspect", n)
              ELSE EngineCreate(w, n)}

create_container(w, n) ==
    IF Created(w, n)
    THEN EngineCall(w, "inspect", n)
    ELSE EngineCreate(w, n)

\* A start that does not look at 'instance' first.
start_container_unchecked(w, n) == EngineCall(w, "start", n)

start_container(w, n) ==
    IF ~Created(w, n)
    THEN Raise(w, "NotCreated")
    ELSE EngineCall(w, "start", n)

\* A run that starts before it creates.
run_container_start_first(w, n) ==
    UNION {IF o.exc = "none" THEN create_container(o.w, n) ELSE {o} :
            o \in start_container(w, n)}

\* create_container, then start_container unless the create raised.
run_container(w, n) ==
    UNION {IF o.exc = "none" THEN start_container(o.w, n) ELSE {o} :
            o \in create_container(w, n)}

stop_container(w, n) ==
    IF Created(w, n)
    THEN EngineCall(w, "stop", n)
    ELSE Unchanged(w)

\* except docker.errors.APIError: print_error(...)
Caught(outcomes) == {[w |-> o.w, exc |-> "none"] : o \in outcomes}

remove_container(w, n) ==
    IF Created(w, n)
    THEN Caught(EngineRemove(w, n))
    ELSE Unchanged(w)

\* A refresh that does not query the engine.
PopulateNothing(w) == w

\* _populate_live_container_data: client.containers(all=True), and every
\* configured name the engine lists gets the listed info as its instance.
PopulateLiveContainerData(w) ==
    [w EXCEPT !.listed = TRUE,
              !.instance =
                 [n \in Names |-> IF w.engine[n] # 0 THEN w.engine[n]
                                  ELSE w.instance[n]]]

\* An operation that begins without querying the engine's container list.
Unlisted(w) == [w EXCEPT !.listed = FALSE]

\* A status that drops the instance it reports.
status_container_forgets(w, n) ==
    {[w |-> [w EXCEPT !.instance[n] = 0], exc |-> "none"]}

\* status_container: prints what the instance says; no engine call.
status_container(w, n) == Unchanged(w)

\* Container specs of a cluster that are not filtered by its names.
AllContainerSpecs(cluster_name) == Names

\* _build_dynamic_container_specs_for_cluster, for a cluster given as a
\* list: the configured containers the cluster names.
BuildDynamicContainerSpecs(cluster_name) ==
    {n \in Names : n \in ClusterSpecs[cluster_name]}

(***************************************************************************)
(* components.Container: the methods.                                      *)
(***************************************************************************)
ContainerCreate(w, n) ==
    IF Created(w, n) THEN Unchanged(w)
    ELSE EngineCreate(w, n)

\* @assert_created
AssertCreated(w, n, method) ==
    IF ~Created(w, n) THEN Raise(w, "NotCreated") ELSE method

ContainerStartBody(w, n) == EngineCall(w, "start", n)

ContainerStart(w, n) == AssertCreated(w, n, ContainerStartBody(w, n))

\* create, then start unless the create raised.
ContainerRun(w, n) ==
    UNION {IF o.exc = "none" THEN ContainerStart(o.w, n) ELSE {o} :
            o \in ContainerCreate(w, n)}

ContainerStopBody(w, n) == EngineCall(w, "stop", n)

ContainerStop(w, n) == AssertCreated(w, n, ContainerStopBody(w, n))

ContainerRemoveBody(w, n) == Caught(EngineRemove(w, n))

ContainerRemove(w, n) == AssertCreated(w, n, ContainerRemoveBody(w, n))

\* Container.status: prints what the live info says; no engine call.
ContainerStatus(w, n) == Unchanged(w)

---------------------------------------------------------------------------
(***************************************************************************)
(* The cluster operations.  op is the record                               *)
(*   kind    : "create", "start", "run", "stop", "remove", "status",       *)
(*             "restart" ("none": idle)                                    *)
(*   phase   : in a restart, which of its two cluster operations is        *)
(*             running (1, 2); 0 in any other operation                    *)
(*   pc      : "idle", "map" (inside the for loop over the keys),          *)
(*             "returned", "raised"                                        *)
(*   exc     : what it raised: "DependencyError" (the resolver's           *)
(*             RuntimeError), "NotCreated" (the RuntimeError of a start    *)
(*             before create), "APIError"                                  *)
(*   key     : the key handed last to the per-container function           *)
(*   keys    : the containers of the cluster                               *)
(*   reverse : whether the keys were collected and reversed first          *)
(*   result  : what the operation returned: nothing yet ("none"), a list   *)
(*             of names ("list"), or Python's None ("None")                *)
(***************************************************************************)
NoResult == [type |-> "none", list |-> <<>>]

\* return processed
ReturnProcessed(processed) == [type |-> "list", list |-> processed]

\* A function body that ends without a return statement returns None.
ReturnNone == [type |-> "None", list |-> <<>>]

\* What each implementation's cluster operation returns:
\* _dependency_aware_map returns `processed`; the methods of Cluster have
\* no return statement.
Returned(i, processed) ==
    IF i = "runner" THEN ReturnProcessed(processed) ELSE ReturnNone

Idle ==
    [kind |-> "none", pc |-> "idle", exc |-> "none", key |-> None,
     keys |-> {}, reverse |-> FALSE, result |-> NoResult, phase |-> 0]

\* The generator each implementation iterates.
GeneratorOf(i) == IF i = "runner" THEN "runner" ELSE "util"

\* tuple(iterator): the generator run to its end, as the set of records
\* [seq, out]: what it yielded, and how it ended.
RECURSIVE DrainAll(_, _, _, _)
DrainAll(r, d, which, acc) ==
    UNION {IF o.out \in {StopIteration, RuntimeError}
           THEN {[seq |-> acc, out |-> o.out]}
           ELSE DrainAll(o.r, d, which, Append(acc, o.out)) :
           o \in GeneratorNext(r, d, which)}

\* Decking._dependency_aware_map up to its for loop, and Cluster.__iter__
\* with the reversed(tuple(self)) of Cluster.stop and Cluster.remove: the
\* generator is made; with reverse it is run to its end at once, which is
\* where a dependency error is raised.
BeginLoop(kind, phase, keys, reverse) ==
    LET begun == [Idle EXCEPT !.kind = kind, !.keys = keys, !.phase = phase]
    IN  IF reverse
        THEN \E t \in DrainAll(NewGenerator(keys), deps, GeneratorOf(impl), <<>>) :
               /\ rs' = NewGenerator({})
               /\ IF t.out = RuntimeError
                  THEN /\ queue' = <<>>
                       /\ op' = [begun EXCEPT !.reverse = TRUE,
                                              !.pc = "raised",
                                              !.exc = "DependencyError"]
                  ELSE /\ queue' = Reverse(t.seq)
                       /\ op' = [begun EXCEPT !.reverse = TRUE, !.pc = "map"]
        ELSE /\ rs' = NewGenerator(keys)
             /\ queue' = <<>>
             /\ op' = [begun EXCEPT !.pc = "map"]

\* The process can take an operation: the facade is constructed, no
\* operation is in its loop, and attach (which never returns) was not
\* invoked.
Ready == op.pc \notin {"new", "map", "attached"}

\* A cluster operation is invoked, on the world w its preamble leaves.
BeginMap(kind, keys, w, reverse) ==
    /\ Ready
    /\ opsLeft > 0
    /\ opsLeft' = opsLeft - 1
    /\ world' = [w EXCEPT !.calls = <<>>, !.failed = {}]
    /\ processedKeys' = <<>>
    /\ BeginLoop(kind, IF kind = "restart" THEN 1 ELSE 0, keys, reverse)
    /\ UNCHANGED <<deps, impl, resolverVars, merge, sideVars>>

\* An operation that raises before its loop: nothing is mapped.
RaiseAtEntry(kind, w, exc) ==
    /\ Ready
    /\ opsLeft > 0
    /\ opsLeft' = opsLeft - 1
    /\ world' = [w EXCEPT !.calls = <<>>, !.failed = {}]
    /\ processedKeys' = <<>>
    /\ rs' = NewGenerator({})
    /\ queue' = <<>>
    /\ op' = [Idle EXCEPT !.kind = kind, !.pc = "raised", !.exc = exc]
    /\ UNCHANGED <<deps, impl, resolverVars, merge, sideVars>>

\* Decking._cluster_and_dependency_aware_map: ValueError('Undefined cluster
\* name ...') when the name is not a key of cluster_specs, else the map over
\* the cluster's container specs.
ClusterAndDependencyAwareMap(kind, cluster_name, w, reverse) ==
    IF cluster_name \notin DOMAIN ClusterSpecs
    THEN RaiseAtEntry(kind, w, "ValueError")
    ELSE BeginMap(kind, BuildDynamicContainerSpecs(cluster_name), w, reverse)

\* Whether each operation maps the keys in reversed order: the `reverse`
\* argument the runner's operations hand to _dependency_aware_map (only
\* stop_cluster passes reverse=True), and reversed(tuple(self)) in Cluster.
\* A create_cluster that reverses:
CreateClusterReversed == TRUE

CreateClusterReverse == FALSE

StartClusterReverse == FALSE

RunClusterReverse == FALSE

\* A stop_cluster that does not reverse:
StopClusterForward == FALSE

StopClusterReverse == TRUE

RemoveClusterReverse == FALSE

ClusterCreateReverse == FALSE

ClusterStartReverse == FALSE

ClusterRunReverse == FALSE

ClusterStopReverse == TRUE

ClusterRemoveReverse == TRUE

StatusClusterReverse == FALSE

\* A restart that starts before it stops.
RestartPhasesSwapped == <<"start", "stop">>

\* restart_cluster: stop_cluster, then start_cluster.
RestartPhases == <<"stop", "start">>

\* The reverse argument of the cluster operation a phase of restart calls.
ReverseOf(verb) ==
    IF verb = "stop" THEN StopClusterReverse ELSE StartClusterReverse

\* The per-container function the operation in progress maps.
ActionOf(o) == IF o.kind = "restart" THEN RestartPhases[o.phase] ELSE o.kind

ClusterStatusReverse == FALSE

\* runner.Decking: create_cluster .. remove_cluster, on the cluster the
\* process was invoked on.
CreateCluster ==
    /\ impl = "runner"
    /\ \E c \in {world.cluster} :
          ClusterAndDependencyAwareMap("create", c,
                   PopulateLiveContainerData(world), CreateClusterReverse)

StartCluster ==
    /\ impl = "runner"
    /\ \E c \in {world.cluster} :
          ClusterAndDependencyAwareMap("start", c,
                   PopulateLiveContainerData(world), StartClusterReverse)

RunCluster ==
    /\ impl = "runner"
    /\ \E c \in {world.cluster} :
          ClusterAndDependencyAwareMap("run", c, Unlisted(world),
                   RunClusterReverse)

StopCluster ==
    /\ impl = "runner"
    /\ \E c \in {world.cluster} :
          ClusterAndDependencyAwareMap("stop", c,
                   PopulateLiveContainerData(world), StopClusterReverse)

RemoveCluster ==
    /\ impl = "runner"
    /\ \E c \in {world.cluster} :
          ClusterAndDependencyAwareMap("remove", c,
                   PopulateLiveContainerData(world), RemoveClusterReverse)

StatusCluster ==
    /\ impl = "runner"
    /\ \E c \in {world.cluster} :
          ClusterAndDependencyAwareMap("status", c,
                   PopulateLiveContainerData(world), StatusClusterReverse)

\* restart_cluster enters the first of its two cluster operations.
RestartCluster ==
    /\ impl = "runner"
    /\ \E c \in {world.cluster} :
          ClusterAndDependencyAwareMap("restart", c,
                   PopulateLiveContainerData(world),
                   ReverseOf(RestartPhases[1]))

\* Decking.attach_cluster: the refresh of the live info, then
\* `for name in self.cluster_specs[cluster]` (a KeyError for a name that is
\* not a key), an engine attach call per name, and signal.pause().  The
\* threads it starts are the subject of SpecAttach.
AttachCluster ==
    /\ impl = "runner"
    /\ \E c \in {world.cluster} :
          IF c \notin DOMAIN ClusterSpecs
          THEN RaiseAtEntry("attach", PopulateLiveContainerData(world),
                            "KeyError")
          ELSE /\ Ready
               /\ opsLeft > 0
               /\ opsLeft' = opsLeft - 1
               /\ world' = [PopulateLiveContainerData(world) EXCEPT
                               !.calls = <<>>, !.failed = {}]
               /\ processedKeys' = <<>>
               /\ rs' = NewGenerator({})
               /\ queue' = <<>>
               /\ op' = [Idle EXCEPT !.kind = "attach", !.pc = "attached",
                                     !.keys = ClusterSpecs[c]]
               /\ UNCHANGED <<deps, impl, resolverVars, merge, sideVars>>

\* components.Cluster: create .. remove, status
ClusterCreate ==
    /\ impl = "components"
    /\ \E c \in {world.cluster} :
          BeginMap("create", ClusterSpecs[c], Unlisted(world),
                   ClusterCreateReverse)

ClusterStart ==
    /\ impl = "components"
    /\ \E c \in {world.cluster} :
          BeginMap("start", ClusterSpecs[c], Unlisted(world),
                   ClusterStartReverse)

ClusterRun ==
    /\ impl = "components"
    /\ \E c \in {world.cluster} :
          BeginMap("run", ClusterSpecs[c], Unlisted(world),
                   ClusterRunReverse)

ClusterStop ==
    /\ impl = "components"
    /\ \E c \in {world.cluster} :
          BeginMap("stop", ClusterSpecs[c], Unlisted(world),
                   ClusterStopReverse)

ClusterRemove ==
    /\ impl = "components"
    /\ \E c \in {world.cluster} :
          BeginMap("remove", ClusterSpecs[c], Unlisted(world),
                   ClusterRemoveReverse)

ClusterStatus ==
    /\ impl = "components"
    /\ \E c \in {world.cluster} :
          BeginMap("status", ClusterSpecs[c], Unlisted(world),
                   ClusterStatusReverse)

\* next() of the for loop of the operation in progress: on the generator,
\* or on the reversed tuple.
NextKey ==
    IF op.reverse
    THEN IF queue = <<>>
         THEN {[out |-> StopIteration, r |-> rs, q |-> queue]}
         ELSE {[out |-> Head(queue), r |-> rs, q |-> Tail(queue)]}
    ELSE {[out |-> o.out, r |-> o.r, q |-> queue] :
            o \in GeneratorNext(rs, deps, GeneratorOf(impl))}

\* The function each operation maps over the keys.
Func(kind, w, n) ==
    IF impl = "runner"
    THEN CASE kind = "create" -> create_container(w, n)
           [] kind = "start" -> start_container(w, n)
           [] kind = "run" -> run_container(w, n)
           [] kind = "stop" -> stop_container(w, n)
           [] kind = "remove" -> remove_container(w, n)
           [] kind = "status" -> status_container(w, n)
    ELSE CASE kind = "create" -> ContainerCreate(w, n)
           [] kind = "start" -> ContainerStart(w, n)
           [] kind = "run" -> ContainerRun(w, n)
           [] kind = "stop" -> ContainerStop(w, n)
           [] kind = "remove" -> ContainerRemove(w, n)
           [] kind = "status" -> ContainerStatus(w, n)

\* One turn of the for loop that gets a key: func(key, item) and
\* processed.append(key), or the exception func raises.
MapContainer(kind) ==
    /\ op.pc = "map"
    /\ op.kind = kind
    /\ \E k \in NextKey :
          /\ k.out \in Names
          /\ rs' = k.r
          /\ queue' = k.q
          /\ \E o \in Func(ActionOf(op), world, k.out) :
                /\ world' = o.w
                /\ IF o.exc = "none"
                   THEN /\ processedKeys' = Append(processedKeys, k.out)
                        /\ op' = [op EXCEPT !.key = k.out]
                   ELSE /\ processedKeys' = processedKeys
                        /\ op' = [op EXCEPT !.key = k.out, !.pc = "raised",
                                            !.exc = o.exc]
    /\ UNCHANGED <<deps, impl, resolverVars, merge, sideVars, opsLeft>>

CreateContainer == MapContainer("create")

StartContainer == MapContainer("start")

RunContainer == MapContainer("run")

StopContainer == MapContainer("stop")

RemoveContainer == MapContainer("remove")

StatusContainer == MapContainer("status")

RestartContainer == MapContainer("restart")

\* The else_ argument of _dependency_aware_map.  No caller passes one, so
\* it is the default `lambda: None`: it calls nothing and pauses nowhere.
else_(w) == w

\* The key is None, the separator of two waves: else_().
WaveSeparator ==
    /\ op.pc = "map"
    /\ \E k \in NextKey :
          /\ k.out = None
          /\ rs' = k.r
          /\ queue' = k.q
    /\ world' = else_(world)
    /\ UNCHANGED <<deps, impl, resolverVars, merge, sideVars, op,
                 processedKeys, opsLeft>>

\* The keys are exhausted: the operation returns `processed`.
MapReturn ==
    /\ op.pc = "map"
    /\ op.phase # 1
    /\ \E k \in NextKey :
          /\ k.out = StopIteration
          /\ rs' = k.r
          /\ queue' = k.q
    /\ op' = [op EXCEPT !.pc = "returned",
                        !.result = Returned(impl, processedKeys)]
    /\ UNCHANGED <<deps, impl, resolverVars, merge, sideVars, world,
                 processedKeys, opsLeft>>

\* The first cluster operation of a restart returns and the second is
\* entered: its refresh of the live info, and its own loop.
RestartNextPhase ==
    /\ op.pc = "map"
    /\ op.phase = 1
    /\ \E k \in NextKey : k.out = StopIteration
    /\ world' = PopulateLiveContainerData(world)
    /\ processedKeys' = <<>>
    /\ BeginLoop("restart", 2, op.keys, ReverseOf(RestartPhases[2]))
    /\ UNCHANGED <<deps, impl, resolverVars, merge, sideVars, opsLeft>>

\* The generator raises in the middle of the for loop.
MapDependencyError ==
    /\ op.pc = "map"
    /\ \E k \in NextKey :
          /\ k.out = RuntimeError
          /\ rs' = k.r
          /\ queue' = k.q
    /\ op' = [op EXCEPT !.pc = "raised", !.exc = "DependencyError"]
    /\ UNCHANGED <<deps, impl, resolverVars, merge, sideVars, world,
                 processedKeys, opsLeft>>

\* A cluster name the configuration does not define.
UndefinedCluster == "pub"

\* The cluster names an operation can be invoked on: main.py hands
\* opts['CLUSTER'], any string, to the runner; a Cluster of components.py
\* is an object of the configuration.
ClusterNames(i) ==
    IF i = "runner" THEN DOMAIN ClusterSpecs \cup {UndefinedCluster}
    ELSE DOMAIN ClusterSpecs

\* The containers a cluster name stands for.  The operations on a cluster
\* read the specs of its members only (_filter_dict_by_keys,
\* Cluster.containers): a container outside it starts with no declared
\* dependency and absent from the engine.
Members(c) == IF c \in DOMAIN ClusterSpecs THEN ClusterSpecs[c] ELSE {}

NewWorld(eng, inst, c) ==
    [instance |-> inst, engine |-> eng, serial |-> eng, calls |-> <<>>,
     ncreate |-> [n \in Names |-> 0],
     preexisting |-> [n \in Names |-> eng[n] # 0],
     removed |-> [n \in Names |-> FALSE], faults |-> MaxFaults,
     failed |-> {}, listed |-> FALSE, cluster |-> c]

\* A fresh process over an engine that may hold containers of earlier
\* runs.  Decking of runner.py starts without live info; the containers of
\* components.py are handed theirs when they are built.
Init ==
    /\ items = {}
    /\ emitted = <<>>
    /\ deps \in ContainerGraphs
    /\ impl \in {"runner", "components"}
    /\ rs = NewGenerator({})
    /\ \E eng \in [Names -> {0, 1}], c \in ClusterNames(impl) :
          /\ \A n \in Names \ Members(c) : deps[n] = {} /\ eng[n] = 0
          /\ world = NewWorld(eng,
                              IF impl = "runner" THEN [n \in Names |-> 0]
                              ELSE eng,
                              c)
    /\ op = Idle
    /\ queue = <<>>
    /\ processedKeys = <<>>
    /\ opsLeft = MaxOps
    /\ merge = <<>>
    /\ config = <<>>
    /\ att = <<>>
    /\ img = <<>>

Next ==
    \/ CreateCluster \/ StartCluster \/ RunCluster
    \/ StopCluster \/ RemoveCluster \/ StatusCluster \/ RestartCluster
    \/ AttachCluster
    \/ ClusterCreate \/ ClusterStart \/ ClusterRun
    \/ ClusterStop \/ ClusterRemove \/ ClusterStatus
    \/ CreateContainer \/ StartContainer \/ RunContainer
    \/ StopContainer \/ RemoveContainer \/ StatusContainer
    \/ RestartContainer \/ RestartNextPhase
    \/ WaveSeparator \/ MapReturn \/ MapDependencyError

Spec == Init /\ [][Next]_vars

\* A process invoked on the cluster 'office' over an engine that may also
\* hold carol, a configured container that 'office' does not list.
InitOutside ==
    /\ items = {}
    /\ emitted = <<>>
    /\ deps \in ContainerGraphs
    /\ impl \in {"runner", "components"}
    /\ rs = NewGenerator({})
    /\ \E eng \in [Names -> {0, 1}] :
          /\ \A n \in Names \ Members("office") : deps[n] = {}
          /\ world = NewWorld(eng,
                              IF impl = "runner" THEN [n \in Names |-> 0]
                              ELSE eng,
                              "office")
    /\ op = Idle
    /\ queue = <<>>
    /\ processedKeys = <<>>
    /\ opsLeft = MaxOps
    /\ merge = <<>>
    /\ config = <<>>
    /\ att = <<>>
    /\ img = <<>>

SpecOutside == InitOutside /\ [][Next]_vars

---------------------------------------------------------------------------
(***************************************************************************)
(* The construction of Decking (runner.py) from the 'containers' mapping   *)
(* of the configuration.  A declared dependency is an item 'name:alias',   *)
(* held here as the pair <<name, alias>>.                                  *)
(***************************************************************************)
Aliases == {"db"}

\* The configurations the schema of main.py admits: the dependencies of a
\* container are any strings, the names of configured containers or not.
RawConfigs ==
    {c \in [Names -> SUBSET (DepNames \X Aliases)] :
        \A n \in Names : Cardinality(c[n]) <= MaxLinks}

\* _uncolon_mapping: dict(item.split(':') for item in ...).
UncolonMapping(mapping_as_sequence) ==
    [name \in {l[1] : l \in mapping_as_sequence} |->
        (CHOOSE l \in mapping_as_sequence : l[1] = name)[2]]

\* _parse_container_specs: result[name]['dependencies'] is
\* list(links.keys()), for every name of the mapping.
ParseContainerSpecs(container_specs) ==
    [name \in DOMAIN container_specs |->
        DOMAIN UncolonMapping(container_specs[name])]

\* Decking.__init__: the container specs are parsed and the cluster and
\* group specs stored; nothing is looked up, no engine call is made.
DeckingInit ==
    /\ op.pc = "new"
    /\ op' = Idle
    /\ deps' = ParseContainerSpecs(config)
    /\ UNCHANGED <<items, impl, rs, emitted, world, queue, processedKeys,
                   opsLeft, merge, config, att, img>>

InitConfig ==
    /\ items = {}
    /\ emitted = <<>>
    /\ deps = [n \in Names |-> {}]
    /\ impl = "runner"
    /\ rs = NewGenerator({})
    /\ \E eng \in [Names -> {0, 1}], c \in DOMAIN ClusterSpecs :
          world = NewWorld(eng, [n \in Names |-> 0], c)
                     @@ [running |-> [n \in Names |-> FALSE]]
    /\ op = [Idle EXCEPT !.pc = "new"]
    /\ queue = <<>>
    /\ processedKeys = <<>>
    /\ opsLeft = MaxOps
    /\ merge = <<>>
    /\ config \in RawConfigs
    /\ att = <<>>
    /\ img = <<>>

NextConfig ==
    \/ DeckingInit
    \/ CreateCluster \/ StartCluster \/ RunCluster
    \/ StopCluster \/ RemoveCluster \/ StatusCluster \/ RestartCluster
    \/ AttachCluster
    \/ CreateContainer \/ StartContainer \/ RunContainer
    \/ StopContainer \/ RemoveContainer \/ StatusContainer
    \/ RestartContainer \/ RestartNextPhase
    \/ WaveSeparator \/ MapReturn \/ MapDependencyError

SpecConfig == InitConfig /\ [][NextConfig]_vars

---------------------------------------------------------------------------
(***************************************************************************)
(* The log aggregator: Cluster.attach of components.py and                 *)
(* Decking.attach_cluster of runner.py.  One producer thread per container *)
(* reads the container's output stream and puts its lines on one queue; a  *)
(* single consumer prints them.  att is the record                         *)
(*   todo     : the containers the for loop has still to attach            *)
(*   total    : the lines each container's stream holds in all             *)
(*   left     : the lines the producer thread has still to read            *)
(*   thread   : each producer thread: "none", "running", "done"            *)
(*   queue    : the log queue, items <<container, line>>                   *)
(*   attached : the set `attached` of Cluster.attach                       *)
(*   current  : current_container of the consumer                          *)
(*   out      : what the terminal has printed                              *)
(*   pc       : "attaching", then the consumer: "loop", "returned",        *)
(*              "raised"                                                   *)
(*   restarted, after : a container that runs again once its stream has    *)
(*              ended, and the lines it has written since                  *)
(***************************************************************************)
AttachNames == ClusterSpecs["office"]

\* The most lines one stream holds.
MaxLines == 2

\* END_OF_STREAM = object(): an item no line of a stream equals (the lines
\* are numbered from 1).
END_OF_STREAM == 0

\* The line the producer of c reads next.
NextLine(a, c) == a.total[c] - a.left[c] + 1

PrintStep(c) == <<"step", c>>

PrintLine(c, line) == <<"line", c, line>>

PrintWarning(text) == <<"warning", text>>

\* The for loop of attach: attached.add(container.name) and
\* container.attach(log_queue), which opens the stream and starts the
\* thread (client.attach and threading.Thread in attach_cluster).
AttachContainer(c) ==
    /\ att.pc = "attaching"
    /\ c \in att.todo
    /\ att' = [att EXCEPT !.todo = @ \ {c},
                          !.thread[c] = "running",
                          !.attached = IF impl = "components"
                                       THEN @ \cup {c} ELSE @]
    /\ UNCHANGED <<items, deps, impl, rs, emitted, programVars, merge,
                   config, img>>

\* The loop is over: _display_logs is entered (components), or its thread
\* is started and the main thread pauses (runner).
StartDisplayLogs ==
    /\ att.pc = "attaching"
    /\ att.todo = {}
    /\ att' = [att EXCEPT !.pc = "loop"]
    /\ UNCHANGED <<items, deps, impl, rs, emitted, programVars, merge,
                   config, img>>

\* _log_consumer, one turn of `for line in stream`: log_queue.put.
LogConsumerPut(c) ==
    /\ att.thread[c] = "running"
    /\ att.left[c] > 0
    /\ att' = [att EXCEPT !.left[c] = @ - 1,
                          !.queue = Append(@, <<c, NextLine(att, c)>>)]
    /\ UNCHANGED <<items, deps, impl, rs, emitted, programVars, merge,
                   config, img>>

\* A producer whose end-of-stream item overtakes the lines on the queue.
LogConsumerEndFirst(i, q, c) ==
    IF i = "components" THEN <<<<c, END_OF_STREAM>>>> \o q ELSE q

\* _log_consumer when the stream has ended: Container._log_consumer puts
\* (name, END_OF_STREAM); Decking._log_consumer just ends.
LogConsumerEnd(i, q, c) ==
    IF i = "components" THEN Append(q, <<c, END_OF_STREAM>>) ELSE q

LogConsumerReturn(c) ==
    /\ att.thread[c] = "running"
    /\ att.left[c] = 0
    /\ att' = [att EXCEPT !.thread[c] = "done",
                          !.queue = LogConsumerEnd(impl, @, c)]
    /\ UNCHANGED <<items, deps, impl, rs, emitted, programVars, merge,
                   config, img>>

\* The loop test of _display_logs: `while attached` in Cluster, `while
\* True` in Decking.
LoopTest(i, a) == IF i = "components" THEN a.attached # {} ELSE TRUE

\* A consumer that prints a header for every line.
HeaderAlways(container, current_container) == TRUE

\* `if container != current_container`
HeaderNeeded(container, current_container) == container # current_container

\* attached.remove(container)
Detach(attached, container) == attached \ {container}

\* One turn of the consumer's loop: log_queue.get() returns an item.
DisplayLogsGet ==
    /\ att.pc = "loop"
    /\ LoopTest(impl, att)
    /\ att.queue # <<>>
    /\ LET container == Head(att.queue)[1]
           line == Head(att.queue)[2]
       IN  IF line = END_OF_STREAM
           THEN att' = [att EXCEPT
                          !.queue = Tail(@),
                          !.attached = Detach(@, container),
                          !.out = Append(@, PrintWarning(<<container, "detached">>))]
           ELSE att' = [att EXCEPT
                          !.queue = Tail(@),
                          !.current = container,
                          !.out = IF HeaderNeeded(container, att.current)
                                  THEN @ \o <<PrintStep(container),
                                              PrintLine(container, line)>>
                                  ELSE Append(@, PrintLine(container, line))]
    /\ UNCHANGED <<items, deps, impl, rs, emitted, programVars, merge,
                   config, img>>

\* log_queue.get(timeout=60 * 60) of Cluster._display_logs finds the queue
\* empty for an hour: queue.Empty leaves _display_logs and attach.
DisplayLogsTimeout ==
    /\ impl = "components"
    /\ att.pc = "loop"
    /\ LoopTest(impl, att)
    /\ att.queue = <<>>
    /\ att' = [att EXCEPT !.pc = "raised"]
    /\ UNCHANGED <<items, deps, impl, rs, emitted, programVars, merge,
                   config, img>>

\* `while attached` is false: 'All containers detached', and attach
\* returns.
DisplayLogsReturn ==
    /\ att.pc = "loop"
    /\ ~LoopTest(impl, att)
    /\ att' = [att EXCEPT !.pc = "returned",
                          !.out = Append(@, PrintWarning("All containers detached"))]
    /\ UNCHANGED <<items, deps, impl, rs, emitted, programVars, merge,
                   config, img>>

\* The engine: a container whose stream has ended is started again.  The
\* stream that client.attach returned stays ended; nothing in either
\* implementation attaches a second time.
ContainerRestarted(c) ==
    /\ att.thread[c] = "done"
    /\ ~att.restarted[c]
    /\ att' = [att EXCEPT !.restarted[c] = TRUE]
    /\ UNCHANGED <<items, deps, impl, rs, emitted, programVars, merge,
                   config, img>>

\* The restarted container writes a line to its output.
WriteAfterRestart(c) ==
    /\ att.restarted[c]
    /\ att.after[c] < MaxLines
    /\ att' = [att EXCEPT !.after[c] = @ + 1]
    /\ UNCHANGED <<items, deps, impl, rs, emitted, programVars, merge,
                   config, img>>

InitAttach ==
    /\ items = {}
    /\ emitted = <<>>
    /\ deps = [n \in Names |-> {}]
    /\ impl \in {"runner", "components"}
    /\ rs = NewGenerator({})
    /\ world = <<>>
    /\ op = Idle
    /\ queue = <<>>
    /\ processedKeys = <<>>
    /\ opsLeft = 0
    /\ merge = <<>>
    /\ config = <<>>
    /\ img = <<>>
    /\ \E total \in [AttachNames -> 0..MaxLines] :
          att = [todo |-> AttachNames, total |-> total, left |-> total,
                 thread |-> [c \in AttachNames |-> "none"],
                 queue |-> <<>>, attached |-> {}, current |-> None,
                 out |-> <<>>, pc |-> "attaching",
                 restarted |-> [c \in AttachNames |-> FALSE],
                 after |-> [c \in AttachNames |-> 0]]

NextAttach ==
    \/ \E c \in AttachNames : AttachContainer(c)
    \/ StartDisplayLogs
    \/ \E c \in AttachNames : LogConsumerPut(c)
    \/ \E c \in AttachNames : LogConsumerReturn(c)
    \/ DisplayLogsGet
    \/ DisplayLogsTimeout
    \/ DisplayLogsReturn
    \/ \E c \in AttachNames : ContainerRestarted(c)
    \/ \E c \in AttachNames : WriteAfterRestart(c)

SpecAttach == InitAttach /\ [][NextAttach]_vars

\* The threads are scheduled fairly: the main thread, every producer
\* thread and the consumer each take a step they can take.
FairSpecAttach ==
    /\ SpecAttach
    /\ WF_vars(\E c \in AttachNames : AttachContainer(c))
    /\ WF_vars(StartDisplayLogs)
    /\ \A c \in AttachNames :
          WF_vars(LogConsumerPut(c) \/ LogConsumerReturn(c))
    /\ WF_vars(DisplayLogsGet \/ DisplayLogsReturn)

---------------------------------------------------------------------------
(***************************************************************************)
(* Image.dependencies of components.py.  img is the record                 *)
(*   file     : the Dockerfile at the image's path now, a sequence of      *)
(*              lines <<instruction, argument>>                            *)
(*   readable : whether open(path) succeeds now                            *)
(*   cache    : _dependencies: not set (None), or the list it holds        *)
(*   accesses, reads, parses : how often the property was read, the file   *)
(*              opened, and _parse_dockerfile has returned                 *)
(*   first    : what the first _parse_dockerfile that returned, returned   *)
(*   returned : what the last access gave: nothing yet, a list, or the     *)
(*              IOError of open                                            *)
(***************************************************************************)
\* The most lines of a Dockerfile, and the most accesses of the property.
MaxFileLines == 2

MaxAccesses == 3

DockerfileLines == {<<"FROM", "ubuntu">>, <<"from", "debian">>, <<"RUN", "make">>}

Dockerfiles ==
    UNION {[1..k -> DockerfileLines] : k \in 0..MaxFileLines}

\* line.upper().startswith('FROM')
IsFrom(line) == line[1] \in {"FROM", "from"}

\* _parse_dockerfile: [dependency] of the first FROM line, else [].
RECURSIVE ParseDockerfile(_)
ParseDockerfile(file) ==
    IF file = <<>> THEN <<>>
    ELSE IF IsFrom(Head(file)) THEN <<Head(file)[2]>>
    ELSE ParseDockerfile(Tail(file))

\* self._dependencies = None
NoCache == [parsed |-> FALSE, value |-> <<>>]

\* A test of the cache by truth value: `if not self._dependencies`.
CacheIsFalsy(cache) == ~cache.parsed \/ cache.value = <<>>

\* `if self._dependencies is None`
CacheIsNone(cache) == ~cache.parsed

\* Image.__init__: the path is stored, nothing is read.
InitImage ==
    /\ items = {}
    /\ emitted = <<>>
    /\ deps = [n \in Names |-> {}]
    /\ impl = "components"
    /\ rs = NewGenerator({})
    /\ world = <<>>
    /\ op = Idle
    /\ queue = <<>>
    /\ processedKeys = <<>>
    /\ opsLeft = 0
    /\ merge = <<>>
    /\ config = <<>>
    /\ att = <<>>
    /\ \E file \in Dockerfiles, readable \in BOOLEAN :
          img = [file |-> file, readable |-> readable, cache |-> NoCache,
                 accesses |-> 0, reads |-> 0, parses |-> 0,
                 first |-> <<>>,
                 returned |-> [type |-> "none", value |-> <<>>]]

\* An access of Image.dependencies.
ImageDependencies ==
    /\ img.accesses < MaxAccesses
    /\ IF CacheIsNone(img.cache)
       THEN IF img.readable
            THEN LET value == ParseDockerfile(img.file)
                 IN  img' = [img EXCEPT
                               !.accesses = @ + 1,
                               !.reads = @ + 1,
                               !.parses = @ + 1,
                               !.first = IF img.parses = 0 THEN value ELSE @,
                               !.cache = [parsed |-> TRUE, value |-> value],
                               !.returned = [type |-> "value",
                                             value |-> value]]
            ELSE img' = [img EXCEPT
                           !.accesses = @ + 1,
                           !.reads = @ + 1,
                           !.returned = [type |-> "IOError", value |-> <<>>]]
       ELSE img' = [img EXCEPT
                      !.accesses = @ + 1,
                      !.returned = [type |-> "value",
                                    value |-> img.cache.value]]
    /\ UNCHANGED <<items, deps, impl, rs, emitted, programVars, merge,
                   config, att>>

\* The file system: the Dockerfile is rewritten, removed or restored
\* between two accesses.
EditDockerfile ==
    /\ \E file \in Dockerfiles, readable \in BOOLEAN :
          /\ <<file, readable>> # <<img.file, img.readable>>
          /\ img' = [img EXCEPT !.file = file, !.readable = readable]
    /\ UNCHANGED <<items, deps, impl, rs, emitted, programVars, merge,
                   config, att>>

NextImage == ImageDependencies \/ EditDockerfile

SpecImage == InitImage /\ [][NextImage]_vars

---------------------------------------------------------------------------
(***************************************************************************)
(* Decking.build of runner.py: the image specs are parsed from the         *)
(* Dockerfiles on first use and the images built through                   *)
(* _dependency_aware_map.  In these runs img is the record                 *)
(*   files     : per configured image tag, the Dockerfile at its path      *)
(*   specs     : _image_specs: not parsed (None), or the 'dependencies'    *)
(*               of every tag                                              *)
(*   gen       : the generator _names_by_dependency(self.image_specs)      *)
(*   built     : the tags handed to client.build, in order                 *)
(*   processed : the list `processed` of _dependency_aware_map             *)
(*   pc, exc   : "idle", "map", "returned", "raised", and what was raised  *)
(*   faults    : the builds the engine may still fail                      *)
(***************************************************************************)
\* The 'images' of the configuration, as in test/data, and a base image
\* that is configured nowhere.
ImageTags == {"repo/alice", "repo/bob", "repo/unused"}

ExternalBase == "ubuntu"

\* The Dockerfiles: no FROM line at all, a FROM line first or after another
\* line, in either case, and a second FROM line after the first.
BuildFiles ==
    {<<>>, << <<"RUN", "make">> >>}
    \cup {<< <<"FROM", b>> >> : b \in ImageTags \cup {ExternalBase}}
    \cup {<< <<"RUN", "make">>, <<"from", b>> >> :
            b \in ImageTags \cup {ExternalBase}}
    \cup {<< <<"FROM", ExternalBase>>, <<"FROM", b>> >> : b \in ImageTags}

\* An image spec parser that keeps the external dependencies.
ParseImageSpecsKeepExternal(image_specs) ==
    [tag \in DOMAIN image_specs |->
        LET dependency == ParseDockerfile(image_specs[tag])
        IN  IF dependency # <<>> THEN {dependency[1]} ELSE {}]

\* _parse_image_specs: the dependency of a tag is what _parse_dockerfile
\* finds in its Dockerfile if that is a key of the image specs; `Ignore
\* external dependencies`.
ParseImageSpecs(image_specs) ==
    [tag \in DOMAIN image_specs |->
        LET dependency == ParseDockerfile(image_specs[tag])
        IN  IF dependency # <<>> /\ dependency[1] \in DOMAIN image_specs
            THEN {dependency[1]}
            ELSE {}]

InitBuild ==
    /\ items = {}
    /\ emitted = <<>>
    /\ deps = [n \in Names |-> {}]
    /\ impl = "runner"
    /\ rs = NewGenerator({})
    /\ world = <<>>
    /\ op = Idle
    /\ queue = <<>>
    /\ processedKeys = <<>>
    /\ opsLeft = 0
    /\ merge = <<>>
    /\ config = <<>>
    /\ att = <<>>
    /\ \E files \in [ImageTags -> BuildFiles] :
          img = [files |-> files,
                 specs |-> [parsed |-> FALSE,
                            value |-> [tag \in ImageTags |-> {}]],
                 gen |-> NewGenerator({}), built |-> <<>>,
                 processed |-> <<>>, pc |-> "idle", exc |-> "none",
                 faults |-> MaxFaults]

\* Decking.build(image): NotImplementedError unless image is 'all'; else
\* the image_specs property (parsed when still None) and the generator of
\* _dependency_aware_map.
Build ==
    /\ img.pc = "idle"
    /\ \E image \in {"all", "repo/alice"} :
          IF image # "all"
          THEN img' = [img EXCEPT !.pc = "raised",
                                  !.exc = "NotImplementedError"]
          ELSE LET value == IF img.specs.parsed THEN img.specs.value
                            ELSE ParseImageSpecs(img.files)
               IN  img' = [img EXCEPT
                             !.specs = [parsed |-> TRUE, value |-> value],
                             !.gen = NewGenerator(DOMAIN value),
                             !.pc = "map"]
    /\ UNCHANGED <<items, deps, impl, rs, emitted, programVars, merge,
                   config, att>>

\* One turn of the for loop that gets a tag: build_image calls client.build
\* and consumes its stream, which raises RuntimeError on an 'error' item;
\* else processed.append(key).
BuildImage ==
    /\ img.pc = "map"
    /\ \E k \in GeneratorNext(img.gen, img.specs.value, "runner") :
          /\ k.out \in ImageTags
          /\ \/ img' = [img EXCEPT !.gen = k.r,
                                   !.built = Append(@, k.out),
                                   !.processed = Append(@, k.out)]
             \/ /\ img.faults > 0
                /\ img' = [img EXCEPT !.gen = k.r,
                                      !.built = Append(@, k.out),
                                      !.faults = @ - 1,
                                      !.pc = "raised",
                                      !.exc = "BuildError"]
    /\ UNCHANGED <<items, deps, impl, rs, emitted, programVars, merge,
                   config, att>>

\* The key is None, the separator of two waves: else_(), which does
\* nothing.
BuildWaveSeparator ==
    /\ img.pc = "map"
    /\ \E k \in GeneratorNext(img.gen, img.specs.value, "runner") :
          /\ k.out = None
          /\ img' = [img EXCEPT !.gen = k.r]
    /\ UNCHANGED <<items, deps, impl, rs, emitted, programVars, merge,
                   config, att>>

\* The generator is exhausted (`return processed`), or raises.
BuildReturn ==
    /\ img.pc = "map"
    /\ \E k \in GeneratorNext(img.gen, img.specs.value, "runner") :
          /\ k.out \in {StopIteration, RuntimeError}
          /\ img' = [img EXCEPT
                       !.gen = k.r,
                       !.pc = IF k.out = StopIteration THEN "returned"
                              ELSE "raised",
                       !.exc = IF k.out = StopIteration THEN "none"
                               ELSE "DependencyError"]
    /\ UNCHANGED <<items, deps, impl, rs, emitted, programVars, merge,
                   config, att>>

NextBuild == Build \/ BuildImage \/ BuildWaveSeparator \/ BuildReturn

SpecBuild == InitBuild /\ [][NextBuild]_vars

---------------------------------------------------------------------------
(***************************************************************************)
(* The group override merge.                                               *)
(*                                                                         *)
(* An environment is a mapping of keys to values.  A layer is what one     *)
(* record says about the environment: nothing (present = FALSE), or an     *)
(* environment, which may be empty.                                        *)
(*                                                                         *)
(* merge is the record                                                     *)
(*   self     : the name of the container the value is computed for        *)
(*   base     : the layer of the container itself                          *)
(*   group    : whether the cluster has a group                            *)
(*   options  : the layer of the group's options                           *)
(*   per_container_specs : the group's overrides, a mapping of dictionary  *)
(*              keys to layers.  A key is [type, name]: the string name,   *)
(*              or the Container object named name                         *)
(*   computed : the merged environment, once computed                      *)
(***************************************************************************)
EnvKeys == {"A", "B"}

EnvValues == {"1", "2", "9"}

Envs == UNION {[K -> EnvValues] : K \in SUBSET EnvKeys}

NoLayer == [present |-> FALSE, env |-> <<>>]

Layers == {NoLayer} \cup {[present |-> TRUE, env |-> e] : e \in Envs}

\* The container the merge is computed for, and another member.
Self == "alice"

Other == "bob"

StrKey(n) == [type |-> "str", name |-> n]

ContainerKey(n) == [type |-> "Container", name |-> n]

\* dict.update
Update(a, b) ==
    [k \in DOMAIN a \cup DOMAIN b |-> IF k \in DOMAIN b THEN b[k] ELSE a[k]]

\* value.update(getattr(container, attr_name)) for every item of
\* per_container_specs whose key satisfies `name == self.name`; names are
\* unique, so at most one does.  self.name is a string: a key that is a
\* Container object never equals it.
UpdateFromMatching(value, specs, selfname) ==
    IF StrKey(selfname) \in DOMAIN specs
    THEN Update(value, specs[StrKey(selfname)].env)
    ELSE value

\* Container._get_group_modified_dict_attribute(group, 'environment');
\* ContainerData stores `environment or {}`.
GetGroupModifiedDictAttribute(m) ==
    IF m.group
    THEN UpdateFromMatching(Update(m.base.env, m.options.env),
                            m.per_container_specs, m.self)
    ELSE m.base.env

\* One spec.update(record) of _build_dynamic_container_specs_for_cluster,
\* seen on the key 'env': the record's value replaces the one held.
SpecUpdate(layer, record) == IF record.present THEN record ELSE layer

\* group_spec['containers'].get(name, {})
ContainerSpecificUpdate(specs, name) ==
    IF StrKey(name) \in DOMAIN specs THEN specs[StrKey(name)] ELSE NoLayer

\* Decking._build_dynamic_container_specs_for_cluster for one container,
\* then container_spec.get('env', []) of create_container.
BuildDynamicEnv(m) ==
    SpecUpdate(SpecUpdate(m.base, m.options),
               ContainerSpecificUpdate(m.per_container_specs, m.self)).env

\* The overrides of a group: a layer for Self, one for Other, under keys of
\* one type.
PerContainerSpecs(type, forSelf, forOther) ==
    LET key(n) == IF type = "str" THEN StrKey(n) ELSE ContainerKey(n)
        names == {n \in {Self, Other} :
                    (IF n = Self THEN forSelf ELSE forOther).present}
    IN  [k \in {key(n) : n \in names} |->
            IF k.name = Self THEN forSelf ELSE forOther]

\* Groups as the tests and the docstring of Group build them (keyed by
\* Container objects) and as a configuration file names them (keyed by
\* container names); runner.py reads the configuration's names.
InitGroup ==
    /\ items = {}
    /\ emitted = <<>>
    /\ deps = [n \in Names |-> {}]
    /\ impl \in {"runner", "components"}
    /\ rs = NewGenerator({})
    /\ world = <<>>
    /\ op = Idle
    /\ queue = <<>>
    /\ processedKeys = <<>>
    /\ opsLeft = 0
    /\ config = <<>>
    /\ att = <<>>
    /\ img = <<>>
    /\ \E base \in Layers, g \in BOOLEAN, options \in Layers,
          forSelf \in Layers, forOther \in Layers,
          type \in {"str", "Container"} :
          /\ impl = "components" => base.present
          /\ impl = "runner" => type = "str"
          /\ ~g => /\ options = NoLayer
                   /\ forSelf = NoLayer
                   /\ forOther = NoLayer
                   /\ type = "str"
          /\ merge = [self |-> Self, base |-> base, group |-> g,
                      options |-> options,
                      per_container_specs |->
                          PerContainerSpecs(type, forSelf, forOther),
                      pc |-> "built", computed |-> <<>>]

\* Container.create computes the environment it hands to the engine.
ContainerEnvironment ==
    /\ impl = "components"
    /\ merge.pc = "built"
    /\ merge' = [merge EXCEPT !.pc = "computed",
                              !.computed = GetGroupModifiedDictAttribute(merge)]
    /\ UNCHANGED <<items, deps, impl, rs, emitted, programVars, sideVars>>

\* The runner builds the specs of the cluster and create_container reads
\* the environment off them.
RunnerEnvironment ==
    /\ impl = "runner"
    /\ merge.pc = "built"
    /\ merge' = [merge EXCEPT !.pc = "computed",
                              !.computed = BuildDynamicEnv(merge)]
    /\ UNCHANGED <<items, deps, impl, rs, emitted, programVars, sideVars>>

NextGroup == ContainerEnvironment \/ RunnerEnvironment

SpecGroup == InitGroup /\ [][NextGroup]_vars

---------------------------------------------------------------------------
(***************************************************************************)
(* The group override of the network mode, the privileged flag and the     *)
(* port bindings.  A record (a container's own configuration, the group's  *)
(* options, the group's override for the container) says of each of the    *)
(* three either nothing or a value.  Here merge is the record              *)
(*   base, options, override : the three records                           *)
(*   group       : whether the cluster has a group                         *)
(*   create_args : ports of the engine create call, once made              *)
(*   start_args  : port_bindings, privileged and network_mode of the       *)
(*                 engine start call, once made                            *)
(***************************************************************************)
NetValues == {"host", "bridge"}

PortMaps == [{"80"} -> {"8080", "9090"}]

\* What a record that does not mention it gives for each: .get('net') is
\* None, .get('privileged', False), .get('port', []); the defaults of
\* ContainerData.__init__ are the same.
NetAbsent == [present |-> FALSE, value |-> "None"]

PrivilegedAbsent == [present |-> FALSE, value |-> FALSE]

PortsAbsent == [present |-> FALSE, value |-> <<>>]

ArgRecords ==
    [net : {NetAbsent} \cup {[present |-> TRUE, value |-> v] : v \in NetValues},
     privileged : {PrivilegedAbsent} \cup
                  {[present |-> TRUE, value |-> b] : b \in BOOLEAN},
     ports : {PortsAbsent} \cup
             {[present |-> TRUE, value |-> p] : p \in PortMaps}]

NoArgs == [net |-> NetAbsent, privileged |-> PrivilegedAbsent,
           ports |-> PortsAbsent]

\* _build_dynamic_container_specs_for_cluster for one container:
\* spec.update(group_spec['options']), then
\* spec.update(group_spec['containers'].get(name, {})).
BuildDynamicArgs(m) ==
    [a \in {"net", "privileged", "ports"} |->
        SpecUpdate(SpecUpdate(m.base[a], m.options[a]), m.override[a])]

\* create_container: ports=port_bindings.keys()
RunnerCreateArgs(spec) == [ports |-> DOMAIN spec.ports.value]

\* start_container: port_bindings, privileged and network_mode read off
\* the container spec.
RunnerStartArgs(spec) ==
    [port_bindings |-> spec.ports.value,
     privileged |-> spec.privileged.value,
     network_mode |-> spec.net.value]

\* Container.create(group): ports=self.port_bindings.keys()
ContainerCreateArgs(m) == [ports |-> DOMAIN m.base.ports.value]

\* Container.start(group): port_bindings=self.port_bindings,
\* privileged=self.privileged, network_mode=self.net
ContainerStartArgs(m) ==
    [port_bindings |-> m.base.ports.value,
     privileged |-> m.base.privileged.value,
     network_mode |-> m.base.net.value]

InitArgs ==
    /\ items = {}
    /\ emitted = <<>>
    /\ deps = [n \in Names |-> {}]
    /\ impl \in {"runner", "components"}
    /\ rs = NewGenerator({})
    /\ world = <<>>
    /\ op = Idle
    /\ queue = <<>>
    /\ processedKeys = <<>>
    /\ opsLeft = 0
    /\ config = <<>>
    /\ att = <<>>
    /\ img = <<>>
    /\ \E base \in ArgRecords, g \in BOOLEAN, options \in ArgRecords,
          override \in ArgRecords :
          /\ ~g => options = NoArgs /\ override = NoArgs
          /\ merge = [base |-> base, group |-> g, options |-> options,
                      override |-> override, create_args |-> [made |-> FALSE, args |-> <<>>],
                      start_args |-> [made |-> FALSE, args |-> <<>>]]

\* create_cluster of the runner reaches the container: the engine create
\* call.
RunnerCreateCall ==
    /\ impl = "runner"
    /\ ~merge.create_args.made
    /\ merge' = [merge EXCEPT !.create_args =
                    [made |-> TRUE,
                     args |-> RunnerCreateArgs(BuildDynamicArgs(merge))]]
    /\ UNCHANGED <<items, deps, impl, rs, emitted, programVars, sideVars>>

\* start_cluster of the runner reaches the created container: the engine
\* start call.
RunnerStartCall ==
    /\ impl = "runner"
    /\ merge.create_args.made
    /\ ~merge.start_args.made
    /\ merge' = [merge EXCEPT !.start_args =
                    [made |-> TRUE,
                     args |-> RunnerStartArgs(BuildDynamicArgs(merge))]]
    /\ UNCHANGED <<items, deps, impl, rs, emitted, programVars, sideVars>>

\* Cluster.create: container.create(self.group)
ContainerCreateCall ==
    /\ impl = "components"
    /\ ~merge.create_args.made
    /\ merge' = [merge EXCEPT !.create_args =
                    [made |-> TRUE, args |-> ContainerCreateArgs(merge)]]
    /\ UNCHANGED <<items, deps, impl, rs, emitted, programVars, sideVars>>

\* Cluster.start: container.start(self.group)
ContainerStartCall ==
    /\ impl = "components"
    /\ merge.create_args.made
    /\ ~merge.start_args.made
    /\ merge' = [merge EXCEPT !.start_args =
                    [made |-> TRUE, args |-> ContainerStartArgs(merge)]]
    /\ UNCHANGED <<items, deps, impl, rs, emitted, programVars, sideVars>>

NextArgs ==
    \/ RunnerCreateCall \/ RunnerStartCall
    \/ ContainerCreateCall \/ ContainerStartCall

SpecArgs == InitArgs /\ [][NextArgs]_vars

---------------------------------------------------------------------------
(***************************************************************************)
(* The stored configuration across cluster operations.  One process holds  *)
(* the container specs (Decking.container_specs, the Container objects)    *)
(* for all its operations.  Two clusters name the container Self:          *)
(* 'with_group', which has a group, and 'vanilla', a plain list (as in     *)
(* test/test_decking.py).  In these runs merge is the record of the group  *)
(* merge with                                                              *)
(*   base     : the layer the stored record of Self holds now              *)
(*   original : the layer the configuration gave Self                      *)
(*   cluster  : the cluster of the last operation ("none": no operation)   *)
(*   computed : the environment the last operation handed on               *)
(*   ops      : the operations that may still be invoked                   *)
(***************************************************************************)
\* What _build_dynamic_container_specs_for_cluster sees as the group of a
\* cluster: group_specs[cluster_spec['group']], or for a list
\* {'options': {}, 'containers': {}}.  Cluster.group is the Group or None.
GroupOfCluster(m, cluster) ==
    IF cluster = "with_group" THEN [m EXCEPT !.group = TRUE]
    ELSE [m EXCEPT !.group = FALSE, !.options = NoLayer,
                   !.per_container_specs = <<>>]

\* The record of Self after the two spec.update calls.  `spec` is the
\* dictionary that self.container_specs holds: _filter_dict_by_keys makes a
\* new outer dictionary of the same inner ones.
UpdatedSpec(m) ==
    SpecUpdate(SpecUpdate(m.base, m.options),
               ContainerSpecificUpdate(m.per_container_specs, m.self))

InitBase ==
    /\ items = {}
    /\ emitted = <<>>
    /\ deps = [n \in Names |-> {}]
    /\ impl \in {"runner", "components"}
    /\ rs = NewGenerator({})
    /\ world = <<>>
    /\ op = Idle
    /\ queue = <<>>
    /\ processedKeys = <<>>
    /\ opsLeft = 0
    /\ config = <<>>
    /\ att = <<>>
    /\ img = <<>>
    /\ \E base \in Layers, options \in Layers, forSelf \in Layers :
          /\ impl = "components" => base.present
          /\ merge = [self |-> Self, base |-> base, original |-> base,
                      group |-> TRUE, options |-> options,
                      per_container_specs |->
                          PerContainerSpecs("str", forSelf, NoLayer),
                      cluster |-> "none", computed |-> <<>>,
                      ops |-> MaxOps]

\* A cluster operation of the runner reaches Self: the specs of the
\* cluster are built, which updates the stored record of Self in place,
\* and the function mapped reads the environment off it.
RunnerOperation ==
    /\ impl = "runner"
    /\ merge.ops > 0
    /\ \E cluster \in {"vanilla", "with_group"} :
          LET spec == UpdatedSpec(GroupOfCluster(merge, cluster))
          IN  merge' = [merge EXCEPT !.base = spec,
                                     !.cluster = cluster,
                                     !.computed = spec.env,
                                     !.ops = @ - 1]
    /\ UNCHANGED <<items, deps, impl, rs, emitted, programVars, sideVars>>

\* A cluster operation of components.py reaches Self: the value is
\* computed on a copy, dict(getattr(self, attr_name)).
ContainerOperation ==
    /\ impl = "components"
    /\ merge.ops > 0
    /\ \E cluster \in {"vanilla", "with_group"} :
          merge' = [merge EXCEPT
                      !.cluster = cluster,
                      !.computed = GetGroupModifiedDictAttribute(
                                       GroupOfCluster(merge, cluster)),
                      !.ops = @ - 1]
    /\ UNCHANGED <<items, deps, impl, rs, emitted, programVars, sideVars>>

NextBase == RunnerOperation \/ ContainerOperation

SpecBase == InitBase /\ [][NextBase]_vars

---------------------------------------------------------------------------
(***************************************************************************)
(* Graph vocabulary of the properties.                                     *)
(***************************************************************************)
RECURSIVE ReachFrom(_, _, _)
ReachFrom(S, d, k) ==
    IF k = 0 THEN S
    ELSE ReachFrom(S \cup UNION {d[x] : x \in S \cap Names}, d, k - 1)

\* Every name an item depends on, directly or through other items.
Below(n, d) == ReachFrom(d[n], d, Cardinality(Names))

OnCycle(n, d) == n \in Below(n, d)

\* The number of items on the longest dependency chain that ends in n (the
\* edges of the chain, plus one), measured up to k items.
RECURSIVE ChainLength(_, _, _)
ChainLength(n, d, k) ==
    IF k = 0 THEN 0
    ELSE LET below == {ChainLength(m, d, k - 1) : m \in d[n] \cap Names}
         IN  1 + (CHOOSE x \in below \cup {0} :
                     \A y \in below : y <= x)

\* n can be emitted by a run over the input set S: everything below it is in
\* S and nothing at or below it is on a cycle.
Satisfiable(n, d, S) ==
    /\ Below(n, d) \subseteq S
    /\ \A m \in (Below(n, d) \cup {n}) \cap Names : ~OnCycle(m, d)

GoodGraph == \A n \in items : Satisfiable(n, deps, items)

\* The items of a yielded sequence, the wave separators left out.
ItemsOf(seq) == SelectSeq(seq, LAMBDA x : x # None)

NoDuplicates(seq) ==
    \A i, j \in 1..Len(seq) : seq[i] = seq[j] => i = j

\* Every dependency of every element stands strictly before it.
DependenciesFirst(seq, d) ==
    \A i \in 1..Len(seq) : \A dep \in d[seq[i]] :
        \E j \in 1..(i - 1) : seq[j] = dep

Elements(seq) == {seq[i] : i \in 1..Len(seq)}

C1_Safe ==
    GoodGraph =>
        /\ NoDuplicates(ItemsOf(emitted))
        /\ DependenciesFirst(ItemsOf(emitted), deps)
        /\ rs.pc # "error"
        /\ (rs.pc = "done" => Elements(ItemsOf(emitted)) = items)

(* C1: over an acyclic graph whose dependency names all belong to the input
   set, either generator yields every input item exactly once, each after
   all of its dependencies, and runs to exhaustion without raising. *)
C1_EveryItemOnceAfterItsDependencies ==
    /\ []C1_Safe
    /\ (GoodGraph => <>(rs.pc = "done"))

C1_Witness ==
    /\ GoodGraph
    /\ rs.pc = "done"
    /\ items = Names
    /\ \E n \in items : Cardinality(deps[n]) = 2
    /\ Len(ItemsOf(emitted)) = 3

C2_Safe ==
    ~GoodGraph =>
        /\ rs.pc # "done"
        /\ (rs.pc = "error" => rs.pending = {} /\ rs.to_process # {})
        /\ \A x \in Elements(ItemsOf(emitted)) : Satisfiable(x, deps, items)
        /\ NoDuplicates(ItemsOf(emitted))

(* C2: over a graph with a cycle (a self-dependency included) or with a
   dependency name absent from the input set, either generator ends by
   raising RuntimeError, after a pass that moved no item; it is never
   exhausted normally, it does not run forever, and it yields no item that
   is on a cycle or depends, directly or not, on a cycle or a missing name. *)
C2_BadGraphRaises ==
    /\ []C2_Safe
    /\ (~GoodGraph => <>(rs.pc = "error"))

C2_Witness ==
    /\ ~GoodGraph
    /\ rs.pc = "error"
    /\ \E n \in items : n \in deps[n]
    /\ \E n \in items : Ghost \in deps[n]
    /\ Len(ItemsOf(emitted)) = 1

---------------------------------------------------------------------------
(***************************************************************************)
(* Properties of the cluster operations.                                   *)
(***************************************************************************)
Calls == world.calls

\* The places of the engine calls <<verb, n>> of the operation in progress.
At(verb, n) == {i \in 1..Len(Calls) : Calls[i] = <<verb, n>>}

Edge(item, dep) == item \in op.keys /\ dep \in op.keys /\ dep \in deps[item]

(* C3: when the dependency graph of the cluster has a cycle or a missing
   reference, a cluster create, start or run fails with the dependency
   error having issued no engine create call and no engine start call. *)
C3_DependencyErrorIssuesNoCall ==
    (op.kind \in {"create", "start", "run"} /\ op.exc = "DependencyError") =>
        \A i \in 1..Len(Calls) : Calls[i][1] \notin {"create", "start"}

\* The engine call a create or a start makes for a container.
VerbOf(kind) == IF kind = "create" THEN "create" ELSE "start"

(* C4: during a cluster create (start) the engine create (start) call for
   a container is issued only after those of all its dependencies in the
   cluster have returned: every dependency was mapped before it, with its
   engine call earlier in the sequence of calls, or (create only) with no
   engine create call at all because it was created already. *)
C4_DependenciesCreatedAndStartedFirst ==
    op.kind \in {"create", "start"} =>
        /\ DependenciesFirst(processedKeys, deps)
        /\ \A n \in op.keys : \A i \in At(VerbOf(op.kind), n) :
              \A dep \in deps[n] :
                 /\ dep \in op.keys
                 /\ \/ \E j \in At(VerbOf(op.kind), dep) : j < i
                    \/ /\ op.kind = "create"
                       /\ At("create", dep) = {}
                       /\ Created(world, dep)
                       /\ dep \in Elements(processedKeys)

C4_Witness ==
    /\ op.kind = "create"
    /\ op.pc = "returned"
    /\ op.keys = Names
    /\ deps["alice"] = {"bob"}
    /\ deps["bob"] = {"carol"}
    /\ Calls = <<<<"create", "carol">>, <<"create", "bob">>,
                 <<"create", "alice">>>>

\* Teardown order of the calls of one verb: when the call for dep is issued,
\* every dependent of dep in the cluster had its call before, or has no live
\* info (and so gets no call).
DependentsFirst(verb) ==
    \A dep \in op.keys : \A j \in At(verb, dep) :
        \A item \in op.keys :
            Edge(item, dep) =>
                \/ \E i \in At(verb, item) : i < j
                \/ ~Created(world, item) /\ At(verb, item) = {}

\* Teardown order of the containers mapped: every dependent, in the cluster,
\* of a container mapped was mapped before it.
MappedDependentsFirst ==
    \A j \in 1..Len(processedKeys) : \A item \in op.keys :
        Edge(item, processedKeys[j]) =>
            \E i \in 1..(j - 1) : processedKeys[i] = item

(* C5: a cluster stop processes the containers in reverse dependency order:
   for every edge (item, dep) among the containers of the cluster, item is
   stopped before dep, and the engine stop call of item, if it gets one, is
   issued before the engine stop call of dep. *)
C5_StopInReverseDependencyOrder ==
    op.kind = "stop" => MappedDependentsFirst /\ DependentsFirst("stop")

C5_Witness ==
    /\ op.kind = "stop"
    /\ op.pc = "returned"
    /\ deps["alice"] = {"bob"}
    /\ deps["bob"] = {"carol"}
    /\ Calls = <<<<"stop", "alice">>, <<"stop", "bob">>, <<"stop", "carol">>>>

(* C6: a cluster remove issues the removes in reverse dependency order:
   for every edge (item, dep) among the containers of the cluster the
   remove of item is issued before the remove of dep. *)
C6_RemoveInReverseDependencyOrder ==
    op.kind = "remove" => MappedDependentsFirst /\ DependentsFirst("remove")

(* C7, as stated: over any sequence of create calls on a container that
   the engine did not hold before and that was not removed, exactly one
   engine create call is issued. *)
C7_ExactlyOneEngineCreateCall ==
    \A n \in Names :
        (~world.preexisting[n] /\ ~world.removed[n]) =>
            /\ world.ncreate[n] <= 1
            /\ (op.kind = "create" /\ n \in Elements(processedKeys))
                  => world.ncreate[n] = 1

(* C7, amended: once a container has live info, a create call on it issues
   no engine create call and the identity held stays the one stored; so at
   most one engine create call returns, and only calls that raised are
   repeated. *)
C7_NoEngineCreateOnceCreated ==
    [][\A n \in Names :
          Created(world, n) =>
              /\ world'.instance[n] = world.instance[n]
              /\ world'.ncreate[n] = world.ncreate[n]]_vars

C7_Witness ==
    \E n \in Names :
        /\ op.kind = "create"
        /\ n \in Elements(processedKeys)
        /\ At("create", n) = {}
        /\ world.ncreate[n] = 1
        /\ ~world.preexisting[n]

(* C8: a start of a container that has no live info raises the not-created
   error and issues no engine start call, and the container stays not
   created: every engine start call is for a created container, a start
   that raised the error left its container without live info and without
   a start call, and no start of such a container returns. *)
C8_StartBeforeCreateFails ==
    /\ \A n \in Names : At("start", n) # {} => Created(world, n)
    /\ op.kind = "start" =>
          /\ \A n \in Elements(processedKeys) :
                Created(world, n) /\ At("start", n) # {}
          /\ (op.exc = "NotCreated" =>
                 /\ op.pc = "raised"
                 /\ ~Created(world, op.key)
                 /\ At("start", op.key) = {})

C8_Witness ==
    /\ op.kind = "start"
    /\ op.exc = "NotCreated"
    /\ Len(processedKeys) >= 1
    /\ world.engine[op.key] = 0

---------------------------------------------------------------------------
(***************************************************************************)
(* Properties of the error paths of the cluster operations.                *)
(***************************************************************************)
\* The operation in progress is over: it returned or it raised.
Over == op.pc \in {"returned", "raised"}

(* C11: a stop of a container that has no live info is a no-op: it issues
   no engine stop call and raises no error, so a cluster stop never ends
   with the not-created error. *)
C11_StopWithoutLiveInfoIsNoOp ==
    op.kind = "stop" =>
        /\ op.exc # "NotCreated"
        /\ \A n \in op.keys : ~Created(world, n) => At("stop", n) = {}

(* C12: a remove of a container that has no live info is a no-op: it
   issues no engine remove call and raises no error, so a cluster remove
   never ends with the not-created error. *)
C12_RemoveWithoutLiveInfoIsNoOp ==
    op.kind = "remove" =>
        /\ op.exc # "NotCreated"
        /\ \A n \in op.keys : ~Created(world, n) => At("remove", n) = {}

\* The dependencies of the cluster of the operation can all be satisfied
\* within the cluster.
ClusterGood == \A n \in op.keys : Satisfiable(n, deps, op.keys)

\* Every created container of the cluster got its engine call `verb`.
EveryCreatedGot(verb) ==
    \A n \in op.keys : Created(world, n) => At(verb, n) # {}

(* C13: an engine API error raised by the remove call of one container is
   caught, not propagated: the cluster remove does not end with it, and it
   still issues the remove call for every other created container of the
   cluster. *)
C13_RemoveErrorIsCaught ==
    (op.kind = "remove" /\ world.failed # {}) =>
        /\ op.exc # "APIError"
        /\ (Over /\ ClusterGood) => EveryCreatedGot("remove")

(* C14: an engine API error raised by the stop call of one container is
   isolated to that container: the cluster stop does not end with it, and
   it still issues the stop call for every other created container of the
   cluster. *)
C14_StopErrorIsIsolated ==
    (op.kind = "stop" /\ world.failed # {}) =>
        /\ op.exc # "APIError"
        /\ (Over /\ ClusterGood) => EveryCreatedGot("stop")

\* The containers of the cluster the operation has not come to.
NotReached == op.keys \ (Elements(processedKeys) \cup {op.key})

(* C15: an engine API error raised by the create or start call of one
   container propagates and halts the cluster operation: the operation
   ends with the error, the call that raised is its last engine call, no
   engine call is issued for a container later in the processing order,
   and the containers processed earlier keep what they got (they are
   created; in a start, their start call was issued). *)
C15_CreateStartErrorHalts ==
    (op.kind \in {"create", "start"} /\ world.failed # {}) =>
        /\ op.pc = "raised"
        /\ op.exc = "APIError"
        /\ Calls # <<>>
        /\ world.failed = {Calls[Len(Calls)]}
        /\ Calls[Len(Calls)][2] = op.key
        /\ \A i \in 1..Len(Calls) : Calls[i][2] \notin NotReached
        /\ \A n \in Elements(processedKeys) :
              /\ Created(world, n)
              /\ op.kind = "start" => At("start", n) # {}

C15_Witness ==
    /\ op.kind = "create"
    /\ op.exc = "APIError"
    /\ Len(processedKeys) = 1
    /\ Cardinality(NotReached) = 1
    /\ At("create", processedKeys[1]) # {}

(* C16: run is create followed by start and is not atomic: the create is
   attempted first, so the start of a run never finds its container without
   live info and every engine start call comes after the engine create call
   of the same container; when the start call raises, the container the
   create step created stays created, with the identity the engine gave. *)
C16_RunIsCreateThenStart ==
    op.kind = "run" =>
        /\ op.exc # "NotCreated"
        /\ \A n \in op.keys : \A j \in At("start", n) :
              /\ Created(world, n)
              /\ \A i \in At("create", n) : i < j
        /\ \A n \in op.keys :
              (At("create", n) # {} /\ <<"create", n>> \notin world.failed) =>
                  /\ Created(world, n)
                  /\ world.instance[n] = world.engine[n]

C16_Witness ==
    \E n \in op.keys :
        /\ op.kind = "run"
        /\ op.exc = "APIError"
        /\ <<"start", n>> \in world.failed
        /\ At("create", n) # {}
        /\ Created(world, n)

(* C17: live info is refreshed from the engine before the operation touches
   any container: a cluster create, start, stop, remove or status of
   runner.py has queried the engine's container list when its loop begins,
   and every configured container the engine holds is marked created, with
   the identity the engine reports. *)
C17_LiveInfoRefreshedFirst ==
    (impl = "runner"
        /\ op.kind \in {"create", "start", "stop", "remove", "status"}) =>
        /\ world.listed
        /\ \A n \in Names :
              world.engine[n] # 0 =>
                  /\ Created(world, n)
                  /\ world.instance[n] = world.engine[n]

C17_Witness ==
    \E n \in Names :
        /\ impl = "runner"
        /\ op.kind = "status"
        /\ op.pc = "map"
        /\ processedKeys = <<>>
        /\ world.preexisting[n]
        /\ world.ncreate[n] = 0
        /\ Created(world, n)
        /\ opsLeft = MaxOps - 1

\* No engine call of the sequence creates, starts, stops or removes.
NoMutatingCall(calls) ==
    \A i \in 1..Len(calls) :
        calls[i][1] \notin {"create", "start", "stop", "remove"}

(* C19: status is read-only: a status operation issues no engine create,
   start, stop or remove call and leaves every container as it was, created
   or not: nothing changes in the engine, the status of a container leaves
   all live info as it is, and the refresh before the loop of a cluster
   status (C17) only records a container the engine already holds; no
   container that was marked created is unmarked. *)
C19_StatusIsReadOnly ==
    [][op'.kind = "status" =>
          /\ NoMutatingCall(world'.calls)
          /\ world'.engine = world.engine
          /\ world'.serial = world.serial
          /\ (op.kind = "status" /\ op.pc = "map")
                => world'.instance = world.instance
          /\ \A n \in Names :
                /\ Created(world, n) => Created(world', n)
                /\ (Created(world', n) /\ ~Created(world, n)) =>
                      /\ world.engine[n] # 0
                      /\ world'.instance[n] = world.engine[n]]_vars

C19_Witness ==
    /\ op.kind = "status"
    /\ op.pc = "returned"
    /\ Len(processedKeys) = 3
    /\ \E n \in Names : Created(world, n) /\ world.ncreate[n] = 0
    /\ \E n \in Names : ~Created(world, n)

\* The engine calls of the operation follow the order of the list: a call
\* for a name that stands later in the list is never issued before a call
\* for a name that stands earlier.
CallsFollow(list) ==
    \A i, j \in 1..Len(list) : \A a \in 1..Len(Calls), b \in 1..Len(Calls) :
        (i < j /\ Calls[a][2] = list[i] /\ Calls[b][2] = list[j]) => a < b

(* C18: every cluster operation returns the ordered list of the processed
   container names: an operation that returned gave back a list that holds
   each member of the cluster exactly once, in the order in which the
   per-container action was invoked. *)
C18_ReturnsProcessedNames ==
    op.pc = "returned" =>
        /\ op.result.type = "list"
        /\ NoDuplicates(op.result.list)
        /\ Elements(op.result.list) = op.keys
        /\ CallsFollow(op.result.list)

(* C20: restart is stop followed by start at cluster level: every engine
   stop call of the restart is issued before its first engine start call,
   the stops run in reverse dependency order and the starts in dependency
   order, and while the stop phase has not returned (so also when it
   raised) no start call is issued. *)
C20_RestartIsStopThenStart ==
    op.kind = "restart" =>
        /\ \A a, b \in 1..Len(Calls) :
              (Calls[a][1] = "stop" /\ Calls[b][1] = "start") => a < b
        /\ DependentsFirst("stop")
        /\ \A n \in op.keys : \A i \in At("start", n) : \A dep \in deps[n] :
              /\ dep \in op.keys
              /\ \E j \in At("start", dep) : j < i
        /\ op.phase = 1 =>
              /\ MappedDependentsFirst
              /\ \A i \in 1..Len(Calls) : Calls[i][1] # "start"
        /\ op.phase = 2 => DependenciesFirst(processedKeys, deps)

C20_Witness ==
    /\ op.kind = "restart"
    /\ op.pc = "returned"
    /\ deps["alice"] = {"bob"}
    /\ deps["bob"] = {"carol"}
    /\ Calls = <<<<"stop", "alice">>, <<"stop", "bob">>, <<"stop", "carol">>,
                 <<"start", "carol">>, <<"start", "bob">>,
                 <<"start", "alice">>>>

---------------------------------------------------------------------------
(***************************************************************************)
(* Properties of the group merge.                                          *)
(***************************************************************************)
\* The override a group holds for container n, whatever the type of its key.
OverrideFor(m, n) ==
    IF \E k \in DOMAIN m.per_container_specs : k.name = n
    THEN (CHOOSE l \in {m.per_container_specs[k] :
                          k \in {j \in DOMAIN m.per_container_specs :
                                   j.name = n}} : TRUE).env
    ELSE <<>>

\* base, overwritten key by key by the options, then by the override.
Layered(base, options, override) ==
    [k \in DOMAIN base \cup DOMAIN options \cup DOMAIN override |->
        IF k \in DOMAIN override THEN override[k]
        ELSE IF k \in DOMAIN options THEN options[k]
        ELSE base[k]]

(* C9: the merged mapping of a container under a group is layered per key:
   the base mapping, overwritten by the keys of the group options, then by
   the keys of the override the group holds for that container; a key that
   a layer does not define keeps the value of the highest lower layer. *)
C9_MergeIsLayeredPerKey ==
    (impl = "components" /\ merge.pc = "computed" /\ merge.group) =>
        merge.computed =
            Layered(merge.base.env, merge.options.env,
                    OverrideFor(merge, merge.self))

\* The example: options env {A: 1, B: 2}, override env {B: 9}.
ExampleOptions == [k \in {"A", "B"} |-> IF k = "A" THEN "1" ELSE "2"]

ExampleOverride == [k \in {"B"} |-> "9"]

(* C10: with group options env {A: 1, B: 2} and an override env {B: 9} for
   one container only, the environment computed for that container is
   {A: 1, B: 9} over its base, and the one computed for another member is
   {A: 1, B: 2} over its base. *)
C10_OverrideOnlyForItsContainer ==
    (merge.pc = "computed" /\ merge.group
        /\ merge.options = [present |-> TRUE, env |-> ExampleOptions]) =>
        /\ (/\ OverrideFor(merge, Self) = ExampleOverride
            /\ OverrideFor(merge, Other) = <<>>)
              => merge.computed =
                    Update(Update(merge.base.env, ExampleOptions),
                           ExampleOverride)
        /\ (/\ OverrideFor(merge, Other) = ExampleOverride
            /\ OverrideFor(merge, Self) = <<>>)
              => merge.computed = Update(merge.base.env, ExampleOptions)

---------------------------------------------------------------------------
(***************************************************************************)
(* Properties of the cluster's membership and of its name.                 *)
(***************************************************************************)
\* Every dependency of every member of the cluster is a configured
\* container, and none lies on a cycle.
ConfigurationGood == \A n \in op.keys : Satisfiable(n, deps, Names)

(* C21: creating a cluster also creates the containers its members depend
   on: when the configured dependencies of the members can be satisfied, a
   cluster create does not fail with the dependency error, and when it
   has returned every container a member depends on, listed in the cluster
   or not, was created before the member. *)
C21_CreateBuildsDependenciesToo ==
    (op.kind = "create" /\ ConfigurationGood) =>
        /\ op.exc # "DependencyError"
        /\ op.pc = "returned" =>
              /\ \A n \in op.keys : Below(n, deps) \subseteq Elements(processedKeys)
              /\ DependenciesFirst(processedKeys, deps)

(* C23: a cluster operation on a cluster name that is not defined fails
   with a ValueError naming the cluster and issues no engine create,
   start, stop or remove call. *)
C23_UndefinedClusterRaisesValueError ==
    (world.cluster \notin DOMAIN ClusterSpecs /\ op.kind # "none") =>
        /\ op.pc = "raised"
        /\ op.exc = "ValueError"
        /\ NoMutatingCall(Calls)

\* A container of the configuration declares a dependency on a name that
\* is not a configured container.
UndefinedDependency ==
    \E n \in DOMAIN config : \E l \in config[n] : l[1] \notin DOMAIN config

(* C22: constructing the facade from a configuration in which a container
   depends on a name that is not a configured container fails with a
   reference error, before any resolver pass and before any engine call:
   the construction never leaves such a facade ready for an operation. *)
C22_UndefinedDependencyFailsConstruction ==
    UndefinedDependency =>
        \/ op.pc = "new"
        \/ /\ op.kind = "init"
           /\ op.pc = "raised"
           /\ op.exc = "ConfigReferenceError"
           /\ Calls = <<>>

---------------------------------------------------------------------------
(***************************************************************************)
(* Properties of the log aggregator.                                       *)
(***************************************************************************)
Printed(c, line) == \E i \in 1..Len(att.out) : att.out[i] = PrintLine(c, line)

\* The stream of c has ended and its producer thread is over.
StreamEnded(c) == att.thread[c] = "done"

\* Line `line` of the attached container d is yet to be produced.
YetToProduce(d, line) ==
    /\ att.thread[d] = "running"
    /\ line <= att.total[d]
    /\ NextLine(att, d) <= line

(* C24: the aggregator tolerates detachment: once the stream of one
   container has ended, every line that another attached container
   produces afterwards is dequeued and printed. *)
C24_LinesAfterDetachmentArePrinted ==
    \A c \in AttachNames : \A d \in AttachNames \ {c} :
        \A line \in 1..MaxLines :
            (StreamEnded(c) /\ YetToProduce(d, line)) ~> Printed(d, line)

\* Cluster.attach has returned.
AttachReturned == impl = "components" /\ att.pc = "returned"

(* C25: Cluster.attach terminates exactly when all sources have signalled
   end-of-stream: with finite streams and fair threads the consumer
   eventually empties the attached set, reports 'All containers detached'
   and returns, and it never returns while a container has not signalled
   the end of its stream. *)
C25_AttachReturnsWhenAllStreamsEnded ==
    /\ [](AttachReturned =>
             /\ att.attached = {}
             /\ \A c \in AttachNames : StreamEnded(c))
    /\ (impl = "components") =>
          <>(/\ AttachReturned
             /\ att.out[Len(att.out)] = PrintWarning("All containers detached"))

\* What the terminal shows of the lines: the headers (print_step) and the
\* lines (print_line), the warnings left out.
Shown == SelectSeq(att.out, LAMBDA e : e[1] \in {"step", "line"})

\* The place of the last line shown before place i (0: none).
LineBefore(seq, i) ==
    LET before == {j \in 1..(i - 1) : seq[j][1] = "line"}
    IN  IF before = {} THEN 0
        ELSE CHOOSE j \in before : \A k \in before : k <= j

(* C26: the consumer prints a header for a source exactly when the
   dequeued line's source differs from the source of the previously
   printed line, and for the first line: a line whose source differs from
   the previous line's stands right after the header of its container, a
   line of the same source stands right after that previous line with no
   header between, and every header is followed by a line of its
   container. *)
C26_HeaderExactlyOnChangeOfSource ==
    \A i \in 1..Len(Shown) :
        /\ Shown[i][1] = "line" =>
              LET p == LineBefore(Shown, i)
              IN  IF p = 0 \/ Shown[p][2] # Shown[i][2]
                  THEN i > 1 /\ Shown[i - 1] = PrintStep(Shown[i][2])
                  ELSE p = i - 1
        /\ Shown[i][1] = "step" =>
              /\ i < Len(Shown)
              /\ Shown[i + 1][1] = "line"
              /\ Shown[i + 1][2] = Shown[i][2]

\* A line of bob under his header, then alice's two under one header, then
\* bob's header again.
C26_Witness ==
    /\ Len(Shown) = 7
    /\ Shown[1] = PrintStep("bob")
    /\ Shown[2] = PrintLine("bob", 1)
    /\ Shown[3] = PrintStep("alice")
    /\ Shown[4] = PrintLine("alice", 1)
    /\ Shown[5] = PrintLine("alice", 2)
    /\ Shown[6] = PrintStep("bob")
    /\ Shown[7] = PrintLine("bob", 2)

\* The k-th line a container has written since it was restarted: it
\* follows the lines of the stream that ended.
LineAfterRestart(c, k) == att.total[c] + k

(* C27: attach survives a container outage: after an attached container's
   stream has ended and the container was restarted, the lines it writes
   after the restart are shown by the same attach invocation. *)
C27_LinesAfterRestartAreShown ==
    \A c \in AttachNames : \A k \in 1..MaxLines :
        (att.restarted[c] /\ att.after[c] >= k) ~>
            Printed(c, LineAfterRestart(c, k))

---------------------------------------------------------------------------
(***************************************************************************)
(* Properties of repeated operations.                                      *)
(***************************************************************************)
\* The engine has the container n running.
Running(w, n) == w.engine[n] # 0 /\ w.running[n]

(* C28: start is safe to run multiple times: a cluster start issues an
   engine start call only for containers that are not already running, so
   no step of a cluster start issues an engine start call for a container
   that an earlier start left running. *)
C28_StartOnlyWhatIsNotRunning ==
    [][\A n \in Names :
          (op.kind = "start" /\ Running(world, n)) =>
              \A i \in (Len(world.calls) + 1)..Len(world'.calls) :
                  world'.calls[i] # <<"start", n>>]_vars

---------------------------------------------------------------------------
(***************************************************************************)
(* Properties of the image's dependency list.                              *)
(***************************************************************************)
(* C29: an image's dependency list is parsed lazily and at most once: no
   build file is read before the first access, the build file is parsed
   once over any sequence of accesses, and every access that returns
   returns the value of the first parse, also when that value is the empty
   list. *)
C29_ParsedLazilyAndOnce ==
    /\ img.accesses = 0 => img.reads = 0 /\ img.parses = 0
    /\ img.parses <= 1
    /\ img.cache.parsed => img.parses = 1 /\ img.cache.value = img.first
    /\ img.returned.type = "value" =>
          /\ img.parses = 1
          /\ img.returned.value = img.first

\* The first parse gave the empty list, the file has since got a FROM
\* line, and the third access still returns the empty list.
C29_Witness ==
    /\ img.accesses = 3
    /\ img.reads = 1
    /\ img.first = <<>>
    /\ img.readable
    /\ ParseDockerfile(img.file) = <<"ubuntu">>
    /\ img.returned = [type |-> "value", value |-> <<>>]

\* The effective value of an attribute: the override's if it gives one,
\* else the group options' if they give one, else the container's own.
Effective(m, a) ==
    IF m.override[a].present THEN m.override[a].value
    ELSE IF m.options[a].present THEN m.options[a].value
    ELSE m.base[a].value

(* C30: for a cluster with a group, the network mode, the privileged flag
   and the port bindings passed to a container's engine create and start
   calls are those of its effective configuration: the base overridden by
   the group options, then by the group's per-container override. *)
C30_CallsGetEffectiveConfiguration ==
    /\ merge.create_args.made =>
          merge.create_args.args.ports = DOMAIN Effective(merge, "ports")
    /\ merge.start_args.made =>
          /\ merge.start_args.args.port_bindings = Effective(merge, "ports")
          /\ merge.start_args.args.privileged = Effective(merge, "privileged")
          /\ merge.start_args.args.network_mode = Effective(merge, "net")

---------------------------------------------------------------------------
(***************************************************************************)
(* Properties of the waves.                                                *)
(***************************************************************************)
\* The wave of a container in the cluster operation in progress.
WaveOf(n) == ChainLength(n, deps, Cardinality(Names))

\* The places of the engine start calls of the operation in progress.
Starts == {i \in 1..Len(Calls) : Calls[i][1] = "start"}

\* The engine start calls at i and j follow each other and belong to two
\* waves.
WaveBoundary(i, j) ==
    /\ i \in Starts /\ j \in Starts /\ i < j
    /\ \A k \in Starts : ~(i < k /\ k < j)
    /\ WaveOf(Calls[i][2]) # WaveOf(Calls[j][2])

(* C31: during a cluster start, between the last engine start call of one
   wave and the first engine start call of the next wave the cooldown runs
   once. *)
C31_CooldownBetweenWaves ==
    op.kind = "start" =>
        \A i, j \in 1..Len(Calls) :
            WaveBoundary(i, j) =>
                Cardinality({k \in (i + 1)..(j - 1) :
                                Calls[k][1] = "cooldown"}) = 1

---------------------------------------------------------------------------
(***************************************************************************)
(* Properties of the order of the printed lines.                           *)
(***************************************************************************)
\* The lines of container c in a sequence of entries that carry the
\* container at place `at` and the line at the place after, in order.
LinesOf(entries, at, c) ==
    LET own == SelectSeq(entries, LAMBDA e : e[at] = c)
    IN  [i \in 1..Len(own) |-> own[i][at + 1]]

\* The lines of c the terminal has printed, and the lines of c that wait on
\* the log queue.
LinesPrinted(c) ==
    LinesOf(SelectSeq(att.out, LAMBDA e : e[1] = "line"), 2, c)

LinesQueued(c) ==
    LinesOf(SelectSeq(att.queue, LAMBDA e : e[2] # END_OF_STREAM), 1, c)

\* The first k lines of a stream.
StreamUpTo(k) == [i \in 1..k |-> i]

\* The terminal has printed the warning.
Warned(text) ==
    \E i \in 1..Len(att.out) :
        att.out[i][1] = "warning" /\ att.out[i] = PrintWarning(text)

(* C32: under every interleaving of the producers the lines printed for a
   container are lines of its stream in stream order, none lost and none
   twice: what is printed followed by what waits on the queue is what the
   producer has read so far; and once the container's 'detached' warning
   or 'All containers detached' is printed, the whole stream of the
   container has been printed. *)
C32_LinesInStreamOrderNoneLost ==
    \A c \in AttachNames :
        /\ LinesPrinted(c) \o LinesQueued(c)
              = StreamUpTo(att.total[c] - att.left[c])
        /\ Warned(<<c, "detached">>) =>
              LinesPrinted(c) = StreamUpTo(att.total[c])
        /\ Warned("All containers detached") =>
              LinesPrinted(c) = StreamUpTo(att.total[c])

\* Both streams hold two lines, the lines were printed interleaved, and
\* both containers and the cluster were reported detached.
C32_Witness ==
    /\ att.pc = "returned"
    /\ \A c \in AttachNames : att.total[c] = MaxLines
    /\ Warned(<<"alice", "detached">>)
    /\ Warned(<<"bob", "detached">>)
    /\ Warned("All containers detached")
    /\ \E i, j, k \in 1..Len(att.out) :
          /\ i < j /\ j < k
          /\ att.out[i] = PrintLine("alice", 1)
          /\ att.out[j] = PrintLine("bob", 1)
          /\ att.out[k] = PrintLine("alice", 2)

---------------------------------------------------------------------------
(***************************************************************************)
(* Properties of build.                                                    *)
(***************************************************************************)
\* The base image of a tag: the argument of the first FROM line of its
\* Dockerfile (none: the empty sequence).
BaseOf(tag) == ParseDockerfile(img.files[tag])

\* The tag's base image is itself a configured image.
ConfiguredBase(tag) == BaseOf(tag) # <<>> /\ BaseOf(tag)[1] \in ImageTags

\* The configured images that a tag is built on, directly or not, up to k
\* steps.
RECURSIVE BasesOf(_, _)
BasesOf(tag, k) ==
    IF k = 0 \/ ~ConfiguredBase(tag) THEN {}
    ELSE {BaseOf(tag)[1]} \cup BasesOf(BaseOf(tag)[1], k - 1)

\* Some configured images are built on each other in a circle.
ImageCycle ==
    \E tag \in ImageTags : tag \in BasesOf(tag, Cardinality(ImageTags))

(* C33: build('all') builds every configured image exactly once in
   dependency order: no image is handed to the engine twice, an image
   whose base is a configured image is built after that base, when build
   returns every configured image was built and is in the list returned,
   and the dependency error is raised only when configured images are
   built on each other in a circle, never because of an external base. *)
C33_BuildAllInDependencyOrder ==
    /\ NoDuplicates(img.built)
    /\ \A i \in 1..Len(img.built) :
          ConfiguredBase(img.built[i]) =>
             \E j \in 1..(i - 1) : img.built[j] = BaseOf(img.built[i])[1]
    /\ img.pc = "returned" =>
          /\ Elements(img.built) = ImageTags
          /\ img.processed = img.built
    /\ img.exc = "DependencyError" => ImageCycle

\* repo/unused is built on repo/alice, repo/alice on repo/bob (named
\* after another line), and repo/bob on an external base; its second FROM
\* line, which names repo/alice, does not count.
C33_Witness ==
    /\ img.pc = "returned"
    /\ img.files["repo/unused"] = << <<"FROM", "repo/alice">> >>
    /\ img.files["repo/alice"] = << <<"RUN", "make">>, <<"from", "repo/bob">> >>
    /\ img.files["repo/bob"] = << <<"FROM", ExternalBase>>,
                                  <<"FROM", "repo/alice">> >>
    /\ img.built = <<"repo/bob", "repo/alice", "repo/unused">>

---------------------------------------------------------------------------
(***************************************************************************)
(* Properties of the resolver's waves and of its three sets.               *)
(***************************************************************************)
\* The wave an item of a resolver run belongs to: one more than the edges
\* of the longest dependency chain below it.
Wave(x) == ChainLength(x, deps, Cardinality(Names))

\* The items of the input that a run can emit, and those of them in the
\* waves before wave k.
Emittable == {x \in items : Satisfiable(x, deps, items)}

WavesBefore(k) == {x \in Emittable : Wave(x) < k}

\* The separators that _names_by_dependency has yielded before place i.
SeparatorsBefore(i) == Cardinality({j \in 1..(i - 1) : emitted[j] = None})

(* C34: the waves do not depend on the order in which a pass visits the
   pending set: in every run, the items moved in the pass in progress all
   have the same longest-chain length k - 1, the items processed before
   are exactly the emittable items of the waves before k, no item is moved
   in the same pass as one of its dependencies, the separators of
   _names_by_dependency stand between the waves, and a run that has ended
   has emitted exactly the emittable items. *)
C34_WavesAreChainLengths ==
    /\ rs.pc \in {"for", "sep"} =>
          \A x \in rs.pending :
              /\ x \in Emittable
              /\ \A y \in rs.pending : Wave(y) = Wave(x) /\ y \notin deps[x]
              /\ rs.processed = WavesBefore(Wave(x))
    /\ \A i \in 1..Len(emitted) :
          (impl = "runner" /\ emitted[i] # None) =>
              Wave(emitted[i]) = SeparatorsBefore(i) + 1
    /\ rs.pc \in {"done", "error"} =>
          Elements(ItemsOf(emitted)) = Emittable

\* Two items without dependencies in the first wave and one that depends
\* on both in the second.
C34_Witness ==
    /\ impl = "runner"
    /\ rs.pc = "done"
    /\ deps["alice"] = {"bob", "carol"}
    /\ emitted = <<"carol", "bob", None, "alice", None>>

(* C35: computing the effective configuration of a cluster leaves the
   base configuration as it was: after any cluster operation the stored
   record of the container equals what the configuration gave it, and an
   operation on the cluster without a group hands on the container's own
   base value. *)
C35_BaseConfigurationUnchanged ==
    /\ merge.base = merge.original
    /\ merge.cluster = "vanilla" => merge.computed = merge.original.env

---------------------------------------------------------------------------
(***************************************************************************)
(* Properties of the live info across operations.                          *)
(***************************************************************************)
\* The engine accepted a remove of n and holds no container of that name
\* since.
RemovedFromEngine(n) == world.removed[n] /\ world.engine[n] = 0

(* C36: after a remove that the engine accepted the container is no longer
   considered created: it has no live info, no engine start call is
   issued for it, and no create passes it by without creating it. *)
C36_RemovedIsNotCreated ==
    \A n \in Names :
        RemovedFromEngine(n) =>
            /\ ~Created(world, n)
            /\ At("start", n) = {}
            /\ ~(op.kind = "create" /\ n \in Elements(processedKeys))

(* C37: a cluster run skips the creation of a container that the engine
   already holds: no step of a run issues an engine create call for such
   a container. *)
C37_RunSkipsCreationOfExisting ==
    [][\A n \in Names :
          (op'.kind = "run" /\ world.engine[n] # 0) =>
              world'.ncreate[n] = world.ncreate[n]]_vars

\* The operation in progress is a cluster stop (the stop of a restart
\* included).
Stopping ==
    \/ op.kind = "stop"
    \/ /\ op.kind = "restart"
       /\ op.phase \in DOMAIN RestartPhases
       /\ RestartPhases[op.phase] = "stop"

(* C38: when the dependency graph of the cluster has a cycle or a missing
   reference, a cluster stop fails with the dependency error before it
   touches a container: it is never inside its loop, it ends with the
   dependency error, and it has issued no engine call and processed no
   container; and a stop that ended with the dependency error never has
   an engine stop call behind it. *)
C38_StopFailsBeforeAnyCall ==
    Stopping =>
        /\ ~ClusterGood =>
              /\ op.pc = "raised"
              /\ op.exc = "DependencyError"
              /\ Calls = <<>>
              /\ processedKeys = <<>>
        /\ op.exc = "DependencyError" =>
              \A i \in 1..Len(Calls) : Calls[i][1] # "stop"

\* bob depends on himself; alice depends on nothing and is created, so a
\* stop that went container by container would have stopped her.
C38_Witness ==
    /\ op.kind = "stop"
    /\ op.exc = "DependencyError"
    /\ deps["bob"] = {"bob"}
    /\ deps["alice"] = {}
    /\ Created(world, "alice")
    /\ world.engine["alice"] # 0
    /\ Calls = <<>>

\* The configured containers that the cluster of the process does not
\* list.
Outside == Names \ Members(world.cluster)

(* C39: a cluster operation touches only the members of its cluster: no
   engine call is issued for a container the cluster does not list, the
   engine keeps such a container as it was, and the live info of such a
   container changes only in a step that refreshes the live info from the
   engine's container list, to what the engine holds. *)
C39_OnlyMembersAreTouched ==
    [][\A n \in Outside :
          /\ \A i \in 1..Len(world'.calls) : world'.calls[i][2] # n
          /\ world'.engine[n] = world.engine[n]
          /\ world'.instance[n] # world.instance[n] =>
                /\ world'.listed
                /\ world'.instance = PopulateLiveContainerData(world).instance]_vars

\* A remove of 'office' has removed alice and bob; carol, whom the engine
\* holds and the refresh has marked created, was left alone.
C39_Witness ==
    /\ world.cluster = "office"
    /\ op.kind = "remove"
    /\ op.pc = "returned"
    /\ Created(world, "carol")
    /\ world.engine["carol"] # 0
    /\ At("remove", "alice") # {}
    /\ At("remove", "bob") # {}
    /\ Len(Calls) = 2

\* The items made ready in the pass in progress: `pending` while the
\* generator is inside a pass or at its separator; no pass is in progress
\* before the first pass and once the generator is exhausted or has raised.
ReadyInThisPass == IF rs.pc \in {"for", "sep"} THEN rs.pending ELSE {}

\* The three sets partition the input, and the passes are bounded.
C40_Partition ==
    /\ rs.to_process \cap ReadyInThisPass = {}
    /\ rs.to_process \cap rs.processed = {}
    /\ ReadyInThisPass \cap rs.processed = {}
    /\ rs.to_process \cup ReadyInThisPass \cup rs.processed = items
    /\ rs.passes <= Cardinality(items)
    /\ rs.pc = "done" => rs.to_process = {}
    /\ rs.pc = "error" => rs.pending = {} /\ rs.to_process # {}

\* A step never takes an item out of processed, and a step that completes
\* a pass completes one that moved items out of to_process, or raises.
C40_Progress ==
    /\ rs.processed \subseteq rs'.processed
    /\ rs'.passes > rs.passes =>
          \/ /\ rs.pc = "for"
             /\ rs.pending # {}
             /\ rs.pending \cap rs'.to_process = {}
             /\ rs.pending \subseteq rs'.processed \cup rs'.pending
          \/ rs'.pc = "error"
    /\ rs'.passes > rs.passes + 1 => rs'.pc = "error"

(* C40: in every state of a resolver run still-to-process, ready-in-this-
   pass and processed are pairwise disjoint and together the input set;
   processed only grows; every completed pass has moved at least one item
   out of still-to-process or raises the dependency error; so the passes
   completed are at most as many as the items. *)
C40_ThreeSetsPartitionTheInput ==
    /\ []C40_Partition
    /\ [][C40_Progress]_vars

\* A run over three items in three passes, suspended in the third.
C40_Witness ==
    /\ items = Names
    /\ rs.pc = "for"
    /\ rs.passes = 2
    /\ Cardinality(rs.processed) = 2
    /\ Cardinality(rs.pending) = 1
    /\ rs.to_process = {}

===========================================================================
